---- MODULE Spec2Model ----
(***************************************************************************)
(* A model of pynlg: the lexicon and its indexes, the English noun-phrase  *)
(* helper's add_modifier, and the English and French morphology rules.     *)
(*                                                                         *)
(* Conventions.  A Python str is a TLA+ string.  A str-valued attribute    *)
(* that is None is the empty string "" (both are falsy in Python; a stored *)
(* form is never the empty string, the lexicon loader turns an empty body  *)
(* into the flag True).  An optional object (a base word, a parent) is a   *)
(* sequence: <<>> for None, <<x>> for the object x.  A call returns a      *)
(* record: [kind |-> "ok", ...] or [kind |-> "raise", exc |-> <name>].     *)
(***************************************************************************)
EXTENDS Naturals, Sequences, FiniteSets, TLC

VARIABLES
    words,            \* Lexicon.words
    id_index,         \* Lexicon.id_index: identifier -> word
    base_index,       \* Lexicon.base_index: base form -> list of words
    variant_index,    \* Lexicon.variant_index: variant -> list of words
    category_index,   \* Lexicon.category_index: category -> list of words
    premodifiers,     \* the phrase's pre-modifier list
    postmodifiers,    \* the phrase's post-modifier list
    call,             \* the last call made: [op |-> ..., its arguments]
    ret               \* what that call returned or raised

lexvars == <<words, id_index, base_index, variant_index, category_index>>
phrasevars == <<premodifiers, postmodifiers>>
vars == <<words, id_index, base_index, variant_index, category_index,
          premodifiers, postmodifiers, call, ret>>

(***************************************************************************)
(* Bounds of the model.                                                    *)
(***************************************************************************)
\* Longest generated word form (over Alphabet) given to the pure functions.
MaxLen == 3
\* Most words indexed into the lexicon in one behaviour.
MaxWords == 2
\* Most modifiers added to the phrase in one behaviour.
MaxModifiers == 2

(***************************************************************************)
(* Feature values.                                                         *)
(***************************************************************************)
SINGULAR == "singular"
PLURAL == "plural"
BOTH == "both"
MASCULINE == "masculine"
FEMININE == "feminine"
NEUTER == "neuter"
FIRST == "first"
SECOND == "second"
THIRD == "third"
SUBJECT == "subject"
OBJECT == "object"
COMPLEMENT == "complement"
SPECIFIER == "specifier"
HEAD == "head"
FRONT_MODIFIER == "front_modifier"
PRE_MODIFIER == "pre_modifier"
POST_MODIFIER == "post_modifier"
REFLEXIVE == "reflexive"
POSSESSIVE == "possessive"
ANY == "ANY"
NOUN == "NOUN"
VERB == "VERB"
ADJECTIVE == "ADJECTIVE"
ADVERB == "ADVERB"
DETERMINER == "DETERMINER"
PRONOUN == "PRONOUN"
NOUN_PHRASE == "NOUN_PHRASE"
VERB_PHRASE == "VERB_PHRASE"
ADJECTIVE_PHRASE == "ADJECTIVE_PHRASE"

(***************************************************************************)
(* Python values.                                                          *)
(***************************************************************************)
None == <<>>
Some(x) == <<x>>
Truthy(opt) == opt # <<>>
The(opt) == opt[1]

Ok(s, w) == [kind |-> "ok", realisation |-> s, word |-> w]
Raise(e) == [kind |-> "raise", exc |-> e]

\* str.endswith(suffix)
EndsWith(s, suffix) ==
    /\ Len(s) >= Len(suffix)
    /\ SubSeq(s, Len(s) - Len(suffix) + 1, Len(s)) = suffix

\* s[:-n] for n >= 1
DropLast(s, n) == IF Len(s) <= n THEN "" ELSE SubSeq(s, 1, Len(s) - n)

\* s[-1]
LastChar(s) == SubSeq(s, Len(s), Len(s))

CharAt(s, i) == SubSeq(s, i, i)

\* '%s' % x for a str attribute x that may be None
PyStr(x) == IF x = "" THEN "None" ELSE x

Vowels == {"a", "e", "i", "o", "u"}
\* \w of the re module, over the characters the model uses
IsWordChar(c) ==
    c \in {"a", "b", "c", "d", "e", "f", "g", "h", "i", "j", "k", "l", "m",
           "n", "o", "p", "q", "r", "s", "t", "u", "v", "w", "x", "y", "z",
           "I", "_"}

(***************************************************************************)
(* Elements.  A word element is a record of its attributes; the attributes *)
(* a call does not read keep the defaults of Elem0.                        *)
(***************************************************************************)
Elem0 ==
    [base_form |-> "", category |-> "", id |-> "",
     number |-> "", gender |-> "", person |-> "",
     proper |-> FALSE, plural |-> "", particle |-> "",
     is_comparative |-> FALSE, is_superlative |-> FALSE,
     comparative |-> "", superlative |-> "", default_infl |-> "reg",
     discourse_function |-> "", passive |-> None,
     possessive |-> FALSE, reflexive |-> FALSE, non_morph |-> FALSE,
     feminine_singular |-> "", feminine_plural |-> "",
     opposite_gender |-> "", preposed |-> FALSE,
     base_word |-> None, parent |-> None]

\* A phrase or list node, as a parent sees it.
Phrase0 ==
    [category |-> NOUN_PHRASE, number |-> "", gender |-> "",
     discourse_function |-> "", premodifiers |-> <<>>,
     complements |-> <<>>, parent |-> None]

\* NLGElement.is_plural, NLGElement.is_feminine
is_plural(element) == element.number = PLURAL
is_feminine(element) == element.gender = FEMININE

(***************************************************************************)
(* English morphology rules (pynlg/morphology/en.py).                      *)
(***************************************************************************)
WH_PRONOUNS == {"who", "what", "which", "where", "why", "how", "how many"}

\* A pronoun table that lost its first person plural reflexive entry.
PRONOUNS_incomplete ==
    [singular |->
       [reflexive |-> [first |-> "myself"],
        subject |-> [first |-> "I"]],
     plural |->
       [reflexive |-> [second |-> "yourselves"],
        subject |-> [first |-> "we"]],
     both |-> <<>>]

PRONOUNS ==
    [singular |->
       [subject |-> [first |-> "I", second |-> "you", third |->
            [masculine |-> "he", feminine |-> "she", neuter |-> "it"]],
        object |-> [first |-> "me", second |-> "you", third |->
            [masculine |-> "him", feminine |-> "her", neuter |-> "it"]],
        specifier |-> [first |-> "my", second |-> "your", third |->
            [masculine |-> "his", feminine |-> "her", neuter |-> "its"]],
        reflexive |-> [first |-> "myself", second |-> "yourself", third |->
            [masculine |-> "himself", feminine |-> "herself",
             neuter |-> "itself"]],
        possessive |-> [first |-> "mine", second |-> "yours", third |->
            [masculine |-> "his", feminine |-> "hers", neuter |-> "its"]]],
     plural |->
       [subject |-> [first |-> "we", second |-> "you", third |->
            [masculine |-> "they", feminine |-> "they", neuter |-> "they"]],
        object |-> [first |-> "us", second |-> "you", third |->
            [masculine |-> "them", feminine |-> "them", neuter |-> "them"]],
        specifier |-> [first |-> "our", second |-> "your", third |->
            [masculine |-> "their", feminine |-> "their",
             neuter |-> "their"]],
        reflexive |-> [first |-> "ourselves", second |-> "yourselves",
          third |->
            [masculine |-> "themselves", feminine |-> "themselves",
             neuter |-> "themselves"]],
        possessive |-> [first |-> "ours", second |-> "yours", third |->
            [masculine |-> "theirs", feminine |-> "theirs",
             neuter |-> "theirs"]]],
     both |-> <<>>]

en_get_base_form(element, base_word) ==
    IF element.category = VERB
    THEN IF Truthy(base_word) /\ The(base_word).base_form # ""
         THEN The(base_word).base_form
         ELSE element.base_form
    ELSE IF element.base_form # ""
         THEN element.base_form
         ELSE IF Truthy(base_word) THEN The(base_word).base_form ELSE ""

\* A pluralize that forgets the "es" of forms ending in "s".
en_pluralize_always_s(realised) == realised \o "s"

en_pluralize(realised) ==
    IF EndsWith(realised, "s") THEN realised \o "es" ELSE realised \o "s"

\* str.replace(a, b) for single characters
RECURSIVE ReplaceChar(_, _, _)
ReplaceChar(s, a, b) ==
    IF s = "" THEN ""
    ELSE (IF CharAt(s, 1) = a THEN b ELSE CharAt(s, 1))
         \o ReplaceChar(Tail(s), a, b)

\* re.sub(VOWELS_RE, '*', s): every maximal run of vowels becomes one '*'
RECURSIVE SubVowelRuns(_, _)
SubVowelRuns(s, inRun) ==
    IF s = "" THEN ""
    ELSE IF CharAt(s, 1) \in Vowels
         THEN (IF inRun THEN "" ELSE "*") \o SubVowelRuns(Tail(s), TRUE)
         ELSE CharAt(s, 1) \o SubVowelRuns(Tail(s), FALSE)

\* str.count(c)
RECURSIVE CountChar(_, _)
CountChar(s, c) ==
    IF s = "" THEN 0
    ELSE (IF CharAt(s, 1) = c THEN 1 ELSE 0) + CountChar(Tail(s), c)

count_syllables(wordform0) ==
    LET wordform == ReplaceChar(wordform0, "*", "x")
        vowel_groups == SubVowelRuns(wordform, FALSE)
        ends_with_vowel ==
            IF wordform # "" /\ LastChar(wordform) \in Vowels THEN 1 ELSE 0
        stars == CountChar(vowel_groups, "*")
    IN  \* max(1, stars - ends_with_vowel)
        IF stars >= ends_with_vowel + 1 THEN stars - ends_with_vowel
        ELSE 1

\* WORD_ENDS_WITH_VOWEL_RE = r".*[^aeiou]y$", matched from the start
WORD_ENDS_WITH_VOWEL_RE(s) ==
    /\ Len(s) >= 2
    /\ LastChar(s) = "y"
    /\ CharAt(s, Len(s) - 1) \notin Vowels

\* re.sub(r"y\b", repl, s): every y not followed by a word character
RECURSIVE SubYBoundary(_, _)
SubYBoundary(s, repl) ==
    IF s = "" THEN ""
    ELSE (IF CharAt(s, 1) = "y" /\ (Len(s) = 1 \/ ~IsWordChar(CharAt(s, 2)))
          THEN repl ELSE CharAt(s, 1))
         \o SubYBoundary(Tail(s), repl)

\* A doubling comparative that forgets to double the final letter.
build_double_comparative_no_doubling(base_form) ==
    IF base_form # "" THEN base_form \o "er" ELSE ""

build_double_comparative(base_form) ==
    IF base_form # "" THEN base_form \o LastChar(base_form) \o "er" ELSE ""

build_double_superlative(base_form) ==
    IF base_form # "" THEN base_form \o LastChar(base_form) \o "est" ELSE ""

build_regular_comparative(base_form) ==
    IF base_form # ""
    THEN IF count_syllables(base_form) >= 2 THEN "more " \o base_form
         ELSE IF WORD_ENDS_WITH_VOWEL_RE(base_form)
              THEN SubYBoundary(base_form, "ier")
              ELSE IF EndsWith(base_form, "e") THEN base_form \o "r"
                   ELSE base_form \o "er"
    ELSE ""

build_regular_superlative(base_form) ==
    IF base_form # ""
    THEN IF count_syllables(base_form) >= 2 THEN "most " \o base_form
         ELSE IF WORD_ENDS_WITH_VOWEL_RE(base_form)
              THEN SubYBoundary(base_form, "iest")
              ELSE IF EndsWith(base_form, "e") THEN base_form \o "st"
                   ELSE base_form \o "est"
    ELSE ""

en_morph_adjective(element, base_word_arg) ==
    LET base_word == IF Truthy(element.base_word) THEN element.base_word
                     ELSE base_word_arg
        base_form == en_get_base_form(element, base_word)
        pattern_value == element.default_infl
        realised ==
            IF element.is_comparative
            THEN IF element.comparative # "" THEN element.comparative
                 ELSE IF Truthy(base_word) /\ The(base_word).comparative # ""
                      THEN The(base_word).comparative
                      ELSE IF pattern_value = "glreg"
                           THEN build_double_comparative(base_form)
                           ELSE build_regular_comparative(base_form)
            ELSE IF element.is_superlative
                 THEN IF element.superlative # "" THEN element.superlative
                      ELSE IF Truthy(base_word)
                              /\ The(base_word).superlative # ""
                           THEN The(base_word).superlative
                           ELSE IF pattern_value = "glreg"
                                THEN build_double_superlative(base_form)
                                ELSE build_regular_superlative(base_form)
                 ELSE base_form
    IN  Ok(realised, element)

\* A morph_adverb without the special case of forms ending in "ly".
en_morph_adverb_no_ly(element, base_word_arg) ==
    en_morph_adjective([element EXCEPT !.default_infl = "reg"], base_word_arg)

en_morph_adverb(element, base_word_arg) ==
    LET base_word == IF Truthy(element.base_word) THEN element.base_word
                     ELSE base_word_arg
        base_form == en_get_base_form(element, base_word)
    IN  IF element.is_comparative
        THEN IF element.comparative # "" THEN Ok(element.comparative, element)
             ELSE IF Truthy(base_word) /\ The(base_word).comparative # ""
                  THEN Ok(The(base_word).comparative, element)
                  ELSE IF base_form = ""
                       THEN Raise("AttributeError")  \* None.endswith
                       ELSE IF EndsWith(base_form, "ly")
                            THEN Ok("more " \o base_form, element)
                            ELSE Ok(build_regular_comparative(base_form),
                                    element)
        ELSE IF element.is_superlative
             THEN IF element.superlative # ""
                  THEN Ok(element.superlative, element)
                  ELSE IF Truthy(base_word)
                          /\ The(base_word).superlative # ""
                       THEN Ok(The(base_word).superlative, element)
                       ELSE IF base_form = ""
                            THEN Raise("AttributeError")
                            ELSE IF EndsWith(base_form, "ly")
                                 THEN Ok("most " \o base_form, element)
                                 ELSE Ok(build_regular_superlative(base_form),
                                         element)
             ELSE Ok(base_form, element)

en_morph_determiner(element) == Ok(element.base_form, element)

en_morph_noun(element, base_word_arg) ==
    LET base_form == en_get_base_form(element, base_word_arg)
        base_word == IF Truthy(element.base_word) THEN element.base_word
                     ELSE base_word_arg
        as_plural ==
            /\ \/ Truthy(element.parent) /\ is_plural(The(element.parent))
               \/ is_plural(element)
            /\ ~element.proper
    IN  IF as_plural
        THEN IF element.plural # "" /\ Truthy(base_word)
             THEN Ok(PyStr(The(base_word).plural) \o element.particle,
                     element)
             ELSE IF base_form = ""
                  THEN Raise("AttributeError")  \* None.endswith
                  ELSE Ok(en_pluralize(base_form) \o element.particle,
                          element)
        ELSE Ok(PyStr(base_form) \o element.particle, element)

\* A Python value with its class: a str, a WordElement, a phrase, ...
PyOfStr(s) == [py |-> "str", val |-> s]
PyOfWord(w) == [py |-> "WordElement", val |-> w]

\* wordform in WH_PRONOUNS: wordform == s for some member s, and a word
\* element is not equal to a str
is_wh_pronoun(wordform) ==
    \E s \in WH_PRONOUNS : wordform.py = "str" /\ wordform.val = s

\* A usage slot that tests the possessive flag before the reflexive flag.
pronoun_use_possessive_first(element) ==
    LET discourse_value == IF element.discourse_function # ""
                           THEN element.discourse_function ELSE SUBJECT
        is_passive == IF element.passive # None THEN The(element.passive)
                      ELSE FALSE
        is_specifier == discourse_value = SPECIFIER
        as_subject ==
            \/ discourse_value = SUBJECT /\ ~is_passive
            \/ discourse_value = OBJECT /\ is_passive
            \/ discourse_value = COMPLEMENT /\ is_passive
            \/ is_specifier
        as_object == ~as_subject
    IN  IF element.possessive
        THEN IF is_specifier THEN SPECIFIER ELSE POSSESSIVE
        ELSE IF element.reflexive THEN REFLEXIVE
             ELSE IF as_subject THEN SUBJECT
                  ELSE IF as_object THEN OBJECT ELSE SUBJECT

\* The usage slot morph_pronoun derives (its local variable use).
pronoun_use(element) ==
    LET discourse_value == IF element.discourse_function # ""
                           THEN element.discourse_function ELSE SUBJECT
        is_passive == IF element.passive # None THEN The(element.passive)
                      ELSE FALSE
        is_specifier == discourse_value = SPECIFIER
        as_subject ==
            \/ discourse_value = SUBJECT /\ ~is_passive
            \/ discourse_value = OBJECT /\ is_passive
            \/ discourse_value = COMPLEMENT /\ is_passive
            \/ is_specifier
        as_object == ~as_subject
    IN  IF element.reflexive THEN REFLEXIVE
        ELSE IF element.possessive
             THEN IF is_specifier THEN SPECIFIER ELSE POSSESSIVE
             ELSE IF as_subject THEN SUBJECT
                  ELSE IF as_object THEN OBJECT ELSE SUBJECT

en_morph_pronoun(element) ==
    IF element.non_morph THEN Ok(element.base_form, element)
    ELSE IF is_wh_pronoun(PyOfWord(element))
         THEN Ok(element.base_form, element)
         ELSE
    LET gender_value == IF element.gender # "" THEN element.gender ELSE NEUTER
        person_value == IF element.person # "" THEN element.person ELSE FIRST
        number_value == IF element.number # "" THEN element.number
                        ELSE SINGULAR
        use == pronoun_use(element)
        by_number == IF number_value \in DOMAIN PRONOUNS
                     THEN PRONOUNS[number_value] ELSE <<>>
        by_use == IF use \in DOMAIN by_number THEN by_number[use] ELSE <<>>
        found == person_value \in DOMAIN by_use
        lookup ==
            IF ~found THEN ""
            ELSE IF person_value = THIRD
                 THEN IF gender_value \in DOMAIN by_use[person_value]
                      THEN by_use[person_value][gender_value] ELSE ""
                 ELSE by_use[person_value]
    IN  Ok(IF lookup # "" THEN lookup ELSE element.base_form, element)

(***************************************************************************)
(* Inputs of the English morphology calls.                                 *)
(***************************************************************************)
Alphabet == {"a", "e", "y", "l", "d", "s", "-"}

RECURSIVE FormsOfLen(_)
FormsOfLen(n) ==
    IF n = 0 THEN {""}
    ELSE {w \o c : w \in FormsOfLen(n - 1), c \in Alphabet}

\* Every non-empty word form over Alphabet of at most MaxLen characters.
GeneratedForms == UNION {FormsOfLen(n) : n \in 1..MaxLen}

AdjectiveForms ==
    {"sad", "brainy", "fine", "clear", "personal", "apt", "tangled", "gray",
     "good"} \cup GeneratedForms
AdverbForms ==
    {"quietly", "slowly", "hard", "late", "badly", "early", "sly"}
    \cup GeneratedForms
NounForms == {"analysis", "book", "keyboard", "bus", "glass"}

Numbers == {"", SINGULAR, PLURAL}

\* The stored comparative, superlative and plural a lexicon entry may hold
\* ("" when the form has none).
Stored(form) ==
    [comparative |->
        IF form = "good" THEN "better" ELSE IF form = "badly" THEN "worse"
        ELSE IF form = "early" THEN "earlier" ELSE "",
     superlative |->
        IF form = "good" THEN "best" ELSE IF form = "badly" THEN "worst"
        ELSE IF form = "early" THEN "earliest" ELSE "",
     plural |->
        IF form = "analysis" THEN "analyses"
        ELSE IF form = "bus" THEN "busses" ELSE ""]

\* The adjective or adverb elements and base words of one form.
GradableWords(form, cat) ==
    {[Elem0 EXCEPT !.base_form = form, !.category = cat,
                   !.comparative = IF st THEN Stored(form).comparative ELSE "",
                   !.superlative = IF st THEN Stored(form).superlative ELSE "",
                   !.default_infl = infl] :
        st \in BOOLEAN, infl \in {"reg", "glreg"}}

GradableElements(form, cat) ==
    {[w EXCEPT !.is_comparative = c, !.is_superlative = sp] :
        w \in GradableWords(form, cat), c \in BOOLEAN, sp \in BOOLEAN}

GradableBaseWords(form, cat) ==
    {None} \cup
    {Some([Elem0 EXCEPT !.base_form = form, !.category = cat,
                   !.comparative = IF st THEN Stored(form).comparative ELSE "",
                   !.superlative = IF st THEN Stored(form).superlative
                                   ELSE ""]) :
        st \in BOOLEAN}

NounBaseWords(form) ==
    {None} \cup
    {Some([Elem0 EXCEPT !.base_form = form, !.category = NOUN,
                        !.plural = IF st THEN Stored(form).plural ELSE ""]) :
        st \in BOOLEAN}

NounElements(form) ==
    {[Elem0 EXCEPT !.base_form = bf, !.category = NOUN, !.number = n,
                   !.proper = pr, !.particle = pt, !.parent = par,
                   !.plural = IF st THEN Stored(form).plural ELSE ""] :
        bf \in {form, ""}, n \in Numbers, pr \in BOOLEAN,
        pt \in {"", " up"}, st \in BOOLEAN,
        par \in {None} \cup {Some([Phrase0 EXCEPT !.number = pn]) :
                                pn \in Numbers}}

PronounElements ==
    {[Elem0 EXCEPT !.base_form = bf, !.category = PRONOUN, !.number = n,
                   !.person = p, !.gender = g, !.discourse_function = d,
                   !.passive = pa, !.possessive = po, !.reflexive = re,
                   !.non_morph = nm] :
        bf \in {"I", "who", "how many"}, n \in Numbers \cup {BOTH},
        p \in {"", FIRST, SECOND, THIRD},
        g \in {"", MASCULINE, FEMININE, NEUTER},
        d \in {"", SUBJECT, OBJECT, COMPLEMENT, SPECIFIER},
        pa \in {None, Some(TRUE), Some(FALSE)},
        po \in BOOLEAN, re \in BOOLEAN, nm \in BOOLEAN}

(***************************************************************************)
(* The English morphology rules as a state machine: a behaviour is one     *)
(* call of a rule on a freshly built element; the rules keep no state of   *)
(* their own, so calls do not interact.                                    *)
(***************************************************************************)
NoCall == [op |-> "none"]
NoRet == [kind |-> "none"]

EmptyLexicon ==
    /\ words = {}
    /\ id_index = <<>>
    /\ base_index = <<>>
    /\ variant_index = <<>>
    /\ category_index = <<>>

InitEn ==
    /\ EmptyLexicon
    /\ premodifiers = <<>>
    /\ postmodifiers = <<>>
    /\ call = NoCall
    /\ ret = NoRet

EnMorphNoun ==
    /\ call = NoCall
    /\ \E form \in NounForms :
      \E element \in NounElements(form), base_word \in NounBaseWords(form) :
        /\ call' = [op |-> "en_morph_noun", element |-> element,
                    base_word |-> base_word]
        /\ ret' = en_morph_noun(element, base_word)
        /\ UNCHANGED <<lexvars, phrasevars>>

EnMorphAdjective ==
    /\ call = NoCall
    /\ \E form \in AdjectiveForms :
      \E element \in GradableElements(form, ADJECTIVE),
         base_word \in GradableBaseWords(form, ADJECTIVE) :
        /\ call' = [op |-> "en_morph_adjective", element |-> element,
                    base_word |-> base_word]
        /\ ret' = en_morph_adjective(element, base_word)
        /\ UNCHANGED <<lexvars, phrasevars>>

EnMorphAdverb ==
    /\ call = NoCall
    /\ \E form \in AdverbForms :
      \E element \in GradableElements(form, ADVERB),
         base_word \in GradableBaseWords(form, ADVERB) :
        /\ call' = [op |-> "en_morph_adverb", element |-> element,
                    base_word |-> base_word]
        /\ ret' = en_morph_adverb(element, base_word)
        /\ UNCHANGED <<lexvars, phrasevars>>

EnMorphPronoun ==
    /\ call = NoCall
    /\ \E element \in PronounElements :
        /\ call' = [op |-> "en_morph_pronoun", element |-> element]
        /\ ret' = en_morph_pronoun(element)
        /\ UNCHANGED <<lexvars, phrasevars>>

EnMorphDeterminer ==
    /\ call = NoCall
    /\ \E element \in PronounElements :
        /\ call' = [op |-> "en_morph_determiner", element |-> element]
        /\ ret' = en_morph_determiner(element)
        /\ UNCHANGED <<lexvars, phrasevars>>

\* The cases of test_pluralize (tests/test_morphology_en.py): the string
\* and the plural the test expects
test_pluralize ==
    [s \in {"person", "fish", "child", "book", "octopus", "index",
            "aquarium", "analysis"} |->
        CASE s = "person" -> "people"
          [] s = "fish" -> "fish"
          [] s = "child" -> "children"
          [] s = "book" -> "books"
          [] s = "octopus" -> "octopodes"
          [] s = "index" -> "indices"
          [] s = "aquarium" -> "aquaria"
          [] s = "analysis" -> "analyses"]

EnPluralize ==
    /\ call = NoCall
    /\ \E realised \in NounForms \cup GeneratedForms
                       \cup DOMAIN test_pluralize :
        /\ call' = [op |-> "en_pluralize", realised |-> realised]
        /\ ret' = Ok(en_pluralize(realised), None)
        /\ UNCHANGED <<lexvars, phrasevars>>

NextEn ==
    \/ EnMorphNoun
    \/ EnMorphAdjective
    \/ EnMorphAdverb
    \/ EnMorphPronoun
    \/ EnMorphDeterminer
    \/ EnPluralize

SpecEn == InitEn /\ [][NextEn]_vars

(***************************************************************************)
(* Properties of the English morphology rules.                             *)
(***************************************************************************)
\* The base word a call works with: element.base_word, else the argument.
CallBaseWord ==
    IF Truthy(call.element.base_word) THEN call.element.base_word
    ELSE call.base_word

\* The base form of a noun call: the element's, else the base word's.
CallNounBaseForm ==
    IF call.element.base_form # "" THEN call.element.base_form
    ELSE IF Truthy(call.base_word) THEN The(call.base_word).base_form ELSE ""

\* The element or its syntactic parent is marked plural, and it is not a
\* proper noun.
CallMarkedPlural ==
    /\ \/ call.element.number = PLURAL
       \/ /\ Truthy(call.element.parent)
          /\ The(call.element.parent).number = PLURAL
    /\ ~call.element.proper

\* C5: an English noun realised as plural (the element or its parent is
\* marked plural, not a proper noun) whose base word declares an irregular
\* plural is realised as exactly that stored plural followed by the
\* particle, whether or not the element itself carries the plural feature.
C5_IrregularPluralReturned ==
    (/\ call.op = "en_morph_noun"
     /\ CallMarkedPlural
     /\ Truthy(CallBaseWord)
     /\ The(CallBaseWord).plural # "")
    => /\ ret.kind = "ok"
       /\ ret.realisation = The(CallBaseWord).plural \o call.element.particle

\* C6: an English noun with no declared irregular plural (none on the
\* element, none on its base word) is pluralised exactly when the element or
\* its parent is marked plural and it is not a proper noun, by the suffix
\* rule (base form + "es" after a final "s", else base form + "s"); the
\* particle comes last in every case.
C6_RegularNounPlural ==
    (/\ call.op = "en_morph_noun"
     /\ call.element.plural = ""
     /\ (Truthy(CallBaseWord) => The(CallBaseWord).plural = "")
     /\ CallNounBaseForm # "")
    => /\ ret.kind = "ok"
       /\ ret.realisation =
            (IF CallMarkedPlural
             THEN IF LastChar(CallNounBaseForm) = "s"
                  THEN CallNounBaseForm \o "es"
                  ELSE CallNounBaseForm \o "s"
             ELSE CallNounBaseForm) \o call.element.particle

\* A noun ending in "s", plural only through its parent, with a particle.
C6_Witness ==
    /\ call.op = "en_morph_noun"
    /\ call.element.plural = ""
    /\ Truthy(CallBaseWord) /\ The(CallBaseWord).plural = ""
    /\ call.element.number # PLURAL
    /\ CallMarkedPlural
    /\ call.element.particle = " up"
    /\ ret.kind = "ok"
    /\ ret.realisation = "glasses up"

\* The syllable estimate: the number of maximal vowel runs, minus one if the
\* form ends in a vowel, at least one.
VowelRunStarts(s) ==
    {i \in 1..Len(s) :
        /\ CharAt(s, i) \in Vowels
        /\ (i = 1 \/ CharAt(s, i - 1) \notin Vowels)}

SyllableEstimate(s) ==
    LET runs == Cardinality(VowelRunStarts(s))
        discount == IF s # "" /\ LastChar(s) \in Vowels THEN 1 ELSE 0
    IN  IF runs > discount + 1 THEN runs - discount ELSE 1

\* No comparative or superlative is stored on the element or its base word.
CallNoStoredGrade ==
    /\ call.element.comparative = ""
    /\ call.element.superlative = ""
    /\ Truthy(CallBaseWord) =>
          /\ The(CallBaseWord).comparative = ""
          /\ The(CallBaseWord).superlative = ""

\* The comparative and superlative the claim gives for its example words.
C7Examples ==
    LET e == call.element
        b == e.base_form
        reg == e.default_infl # "glreg"
        is(comp, sup) == ret.realisation = IF e.is_comparative THEN comp
                                           ELSE sup
    IN  /\ (b = "sad" /\ ~reg) => is("sadder", "saddest")
        /\ (b = "brainy" /\ reg) => is("brainier", "brainiest")
        /\ (b = "fine" /\ reg) => is("finer", "finest")
        /\ (b = "clear" /\ reg) => is("clearer", "clearest")
        /\ (reg /\ (b \in {"personal", "apt", "tangled"}
                    \/ SyllableEstimate(b) >= 2))
              => is("more " \o b, "most " \o b)

\* A call of morph_adjective that computes a comparative or a superlative.
C7Case ==
    /\ call.op = "en_morph_adjective"
    /\ CallNoStoredGrade
    /\ call.element.is_comparative \/ call.element.is_superlative

\* C7: the computed comparative/superlative of an English adjective is a
\* total function of syllable estimate, trailing letters and doubling
\* pattern that gives sadder/saddest, brainier/brainiest, finer/finest,
\* clearer/clearest, and "more X"/"most X" for personal, apt, tangled and
\* every word of two or more estimated syllables.
C7_GradeSelection == C7Case => (ret.kind = "ok" /\ C7Examples)

\* The base form of an adjective or adverb call.
CallGradableBaseForm ==
    IF call.element.base_form # "" THEN call.element.base_form
    ELSE IF Truthy(CallBaseWord) THEN The(CallBaseWord).base_form ELSE ""

\* C8 as stated: an English adverb whose base form ends in "ly" always gets
\* "more " + base form when flagged comparative and "most " + base form when
\* flagged superlative.
C8_Original ==
    (/\ call.op = "en_morph_adverb"
     /\ EndsWith(CallGradableBaseForm, "ly"))
    => /\ call.element.is_comparative
            => ret.realisation = "more " \o CallGradableBaseForm
       /\ (call.element.is_superlative /\ ~call.element.is_comparative)
            => ret.realisation = "most " \o CallGradableBaseForm

\* C8 amended: an English adverb whose base form ends in "ly" and for which
\* no comparative (superlative) is stored on the element or its base word
\* gets "more " + base form when flagged comparative, and "most " + base form
\* when flagged superlative and not comparative, whatever its syllable count.
C8_Amended ==
    (/\ call.op = "en_morph_adverb"
     /\ EndsWith(CallGradableBaseForm, "ly"))
    => /\ (/\ call.element.is_comparative
           /\ call.element.comparative = ""
           /\ Truthy(CallBaseWord) => The(CallBaseWord).comparative = "")
            => /\ ret.kind = "ok"
               /\ ret.realisation = "more " \o CallGradableBaseForm
       /\ (/\ call.element.is_superlative
           /\ ~call.element.is_comparative
           /\ call.element.superlative = ""
           /\ Truthy(CallBaseWord) => The(CallBaseWord).superlative = "")
            => /\ ret.kind = "ok"
               /\ ret.realisation = "most " \o CallGradableBaseForm

\* "sly", one estimated syllable and ending consonant + y, still gets "more".
C8_Witness ==
    /\ call.op = "en_morph_adverb"
    /\ call.element.base_form = "sly"
    /\ call.element.is_comparative
    /\ call.element.comparative = ""
    /\ Truthy(CallBaseWord) /\ The(CallBaseWord).comparative = ""
    /\ ret.realisation = "more sly"

\* The four keys of a pronoun call, with the defaults of missing features.
CallNumber ==
    IF call.element.number # "" THEN call.element.number ELSE SINGULAR
CallPerson ==
    IF call.element.person # "" THEN call.element.person ELSE FIRST
CallGender ==
    IF call.element.gender # "" THEN call.element.gender ELSE NEUTER
CallUse == pronoun_use(call.element)

\* The forms of the pronoun table.
TableForms ==
    {"I", "you", "he", "she", "it", "me", "him", "her", "my", "your", "his",
     "its", "myself", "yourself", "himself", "herself", "itself", "mine",
     "yours", "hers", "we", "they", "us", "them", "our", "their",
     "ourselves", "yourselves", "themselves", "ours", "theirs"}

\* Another pronoun element with the given keys: another base form, and the
\* flags and role that select the usage slot in the plainest way.
KeyedPronoun(n, use, p, g) ==
    [Elem0 EXCEPT !.base_form = "one", !.category = PRONOUN,
                  !.number = n, !.person = p, !.gender = g,
                  !.reflexive = (use = REFLEXIVE),
                  !.possessive = (use \in {SPECIFIER, POSSESSIVE}),
                  !.discourse_function =
                      IF use = SPECIFIER THEN SPECIFIER
                      ELSE IF use = OBJECT THEN OBJECT ELSE SUBJECT]

\* A pronoun call that reaches the table with declared keys.
C9Case ==
    /\ call.op = "en_morph_pronoun"
    /\ ~call.element.non_morph
    /\ CallNumber \in {SINGULAR, PLURAL}
    /\ CallPerson \in {FIRST, SECOND, THIRD}
    /\ CallGender \in {MASCULINE, FEMININE, NEUTER}

\* C9: the pronoun table lookup is total and deterministic over (number,
\* usage slot, person, gender): for every declared key the result is a
\* non-empty table form, the same as for any other element with the same
\* keys, and for first and second person the same for every gender; "I"
\* gives "we" for {plural, first}, "ourselves" for {plural, first,
\* reflexive}, "his" for {singular, third, possessive, masculine}.
C9_PronounLookupTotal ==
    C9Case =>
       /\ ret.kind = "ok"
       /\ ret.realisation \in TableForms
       /\ CallUse \in {SUBJECT, OBJECT, SPECIFIER, POSSESSIVE, REFLEXIVE}
       /\ ret.realisation =
            en_morph_pronoun(KeyedPronoun(CallNumber, CallUse, CallPerson,
                                          CallGender)).realisation
       /\ CallPerson # THIRD =>
            \A g \in {MASCULINE, FEMININE, NEUTER} :
                ret.realisation =
                    en_morph_pronoun([call.element EXCEPT !.gender = g])
                        .realisation
       /\ (CallNumber = PLURAL /\ CallPerson = FIRST /\ CallUse = SUBJECT)
            => ret.realisation = "we"
       /\ (CallNumber = PLURAL /\ CallPerson = FIRST /\ CallUse = REFLEXIVE)
            => ret.realisation = "ourselves"
       /\ (/\ CallNumber = SINGULAR /\ CallPerson = THIRD
           /\ CallGender = MASCULINE /\ CallUse = POSSESSIVE)
            => ret.realisation = "his"

\* "I" with {plural, first, reflexive} gives "ourselves".
C9_Witness ==
    /\ C9Case
    /\ call.element.base_form = "I"
    /\ call.element.number = PLURAL
    /\ call.element.person = FIRST
    /\ call.element.reflexive
    /\ ret.realisation = "ourselves"

\* The stored form of a grade ("comparative" or "superlative") of the call:
\* the element's, else the base word's, else none
CallStoredGrade(grade) ==
    IF call.element[grade] # "" THEN call.element[grade]
    ELSE IF Truthy(CallBaseWord) THEN The(CallBaseWord)[grade]
    ELSE ""

\* C24: the doubling pattern of English adjectives.  For an adjective whose
\* inflection pattern is the doubling tag, marked comparative (or, when not
\* comparative, superlative), the result is the stored comparative
\* (superlative) of the element or its base word when there is one, and
\* otherwise the base form, its final letter again, and "er" ("est"),
\* whatever the syllable count and the trailing letters of the base form.
C24_DoublingPattern ==
    ( /\ call.op = "en_morph_adjective"
      /\ call.element.default_infl = "glreg"
      /\ CallGradableBaseForm # ""
      /\ call.element.is_comparative \/ call.element.is_superlative )
    => LET base_form == CallGradableBaseForm
           grade == IF call.element.is_comparative THEN "comparative"
                    ELSE "superlative"
           suffix == IF call.element.is_comparative THEN "er" ELSE "est"
       IN  /\ ret.kind = "ok"
           /\ ret.realisation =
                 IF CallStoredGrade(grade) # "" THEN CallStoredGrade(grade)
                 ELSE base_form \o LastChar(base_form) \o suffix

\* C24 witness: "personal", of more than one syllable, with the doubling
\* pattern and no stored comparative, realised as "personaller".
C24_Witness ==
    /\ call.op = "en_morph_adjective"
    /\ call.element.default_infl = "glreg"
    /\ call.element.is_comparative
    /\ CallGradableBaseForm = "personal"
    /\ SyllableEstimate("personal") >= 2
    /\ CallStoredGrade("comparative") = ""
    /\ ret.realisation = "personaller"

\* The role and voice of a pronoun call, with the defaults of missing
\* features
CallRole ==
    IF call.element.discourse_function # ""
    THEN call.element.discourse_function ELSE SUBJECT
CallPassive ==
    IF call.element.passive = None THEN FALSE ELSE The(call.element.passive)

\* The usage slot by the stated priority
SlotByPriority ==
    IF call.element.reflexive THEN REFLEXIVE
    ELSE IF call.element.possessive
    THEN IF CallRole = SPECIFIER THEN SPECIFIER ELSE POSSESSIVE
    ELSE IF \/ CallRole = SUBJECT /\ ~CallPassive
            \/ CallRole \in {OBJECT, COMPLEMENT} /\ CallPassive
            \/ CallRole = SPECIFIER
    THEN SUBJECT
    ELSE OBJECT

\* C23: the usage slot of an English pronoun follows a fixed priority.  The
\* realised pronoun is the table entry of the slot chosen so: reflexive when
\* the reflexive flag is set, possessive flag or not; else, with the
\* possessive flag, possessive-specifier for the specifier role and
\* possessive-standalone for any other; else subject-case exactly when the
\* role is subject and not passive, or object or complement and passive, or
\* specifier; object-case otherwise.  Missing features count as singular,
\* first person, neuter, subject role, not passive.
C23_UsageSlotPriority ==
    C9Case =>
        LET entry == PRONOUNS[CallNumber][SlotByPriority][CallPerson]
        IN  /\ ret.kind = "ok"
            /\ CallUse = SlotByPriority
            /\ ret.realisation = IF CallPerson = THIRD THEN entry[CallGender]
                                  ELSE entry

\* C23 witness: "I" with both the reflexive and the possessive flag, in the
\* specifier role, realised as "myself".
C23_Witness ==
    /\ C9Case
    /\ call.element.reflexive
    /\ call.element.possessive
    /\ call.element.discourse_function = SPECIFIER
    /\ CallNumber = SINGULAR
    /\ CallPerson = FIRST
    /\ ret.realisation = "myself"

\* C10: morph_pronoun realises the stored base form verbatim for every
\* wh-word element (who, what, which, where, why, how, how many) and for
\* every element flagged non-morphological, whatever its number, person,
\* gender, reflexive or possessive features.
C10_BypassVerbatim ==
    (/\ call.op = "en_morph_pronoun"
     /\ \/ call.element.non_morph
        \/ call.element.base_form \in WH_PRONOUNS)
    => /\ ret.kind = "ok"
       /\ ret.realisation = call.element.base_form

(***************************************************************************)
(* The lexicon (pynlg/lexicon/lexicon.py).  An index is a function from    *)
(* its keys to its entries; a key that was never set is outside DOMAIN.    *)
(***************************************************************************)
\* dict.get(key): the entry, or None
HasKey(index, key) == key \in DOMAIN index

\* index[key].append(word) on a defaultdict(list)
AppendTo(index, key, word) ==
    IF HasKey(index, key)
    THEN [index EXCEPT ![key] = Append(@, word)]
    ELSE [k \in DOMAIN index \cup {key} |->
             IF k = key THEN <<word>> ELSE index[k]]

\* index[key] = word
SetKey(index, key, word) ==
    [k \in DOMAIN index \cup {key} |-> IF k = key THEN word ELSE index[k]]

\* [w for w in ws if w.category == category]
RECURSIVE FilterCategory(_, _)
FilterCategory(ws, category) ==
    IF ws = <<>> THEN <<>>
    ELSE (IF Head(ws).category = category THEN <<Head(ws)>> ELSE <<>>)
         \o FilterCategory(Tail(ws), category)

\* indexed_words_by_category on a list-valued index (base_index,
\* variant_index)
indexed_words_by_category(word_feature, category, index) ==
    IF category = ANY THEN index[word_feature]
    ELSE FilterCategory(index[word_feature], category)

\* A get that searches the identifier index before the base-form index.
get_id_first(lex, word_feature, category) ==
    IF HasKey(lex.id_index, word_feature)
    THEN IF category = ANY
         THEN [kind |-> "ok", value |-> <<lex.id_index[word_feature]>>]
         ELSE Raise("TypeError")
    ELSE IF HasKey(lex.base_index, word_feature)
    THEN [kind |-> "ok",
          value |-> indexed_words_by_category(word_feature, category,
                                              lex.base_index)]
    ELSE [kind |-> "ok", value |-> <<>>]

\* Lexicon.get.  On an identifier match indexed_words_by_category is given
\* the identifier index, whose entry is one word and not a list: with ANY it
\* returns the word, with a category it iterates over the word, which is
\* not iterable.
get(lex, word_feature, category) ==
    IF HasKey(lex.base_index, word_feature)
    THEN [kind |-> "ok",
          value |-> indexed_words_by_category(word_feature, category,
                                              lex.base_index)]
    ELSE IF HasKey(lex.id_index, word_feature)
    THEN IF category = ANY
         THEN [kind |-> "ok", value |-> <<lex.id_index[word_feature]>>]
         ELSE Raise("TypeError")
    ELSE IF HasKey(lex.variant_index, word_feature)
    THEN [kind |-> "ok",
          value |-> indexed_words_by_category(word_feature, category,
                                              lex.variant_index)]
    ELSE [kind |-> "ok", value |-> <<>>]

\* Lexicon.first: matches[0] if matches else matches
first(lex, word_feature, category) ==
    LET matches == get(lex, word_feature, category)
    IN  IF matches.kind # "ok" THEN matches
        ELSE IF matches.value # <<>>
             THEN [kind |-> "ok", value |-> Some(matches.value[1])]
             ELSE [kind |-> "ok", value |-> None]

\* An index_word that leaves the surface-variant index alone.
index_word_base_only(lex, word) ==
    LET b == IF word.base_form # ""
             THEN AppendTo(lex.base_index, word.base_form, word)
             ELSE lex.base_index
        dup == word.id # "" /\ HasKey(lex.id_index, word.id)
    IN  IF dup
        THEN [lex EXCEPT !.base_index = b, !.raised = "ValueError"]
        ELSE [lex EXCEPT !.base_index = b,
                         !.id_index = IF word.id # ""
                                      THEN SetKey(@, word.id, word) ELSE @,
                         !.category_index =
                             IF word.category # ""
                             THEN AppendTo(@, word.category, word) ELSE @,
                         !.raised = ""]

\* An index_word that overwrites the identifier index on a duplicate.
index_word_overwrite(lex, word) ==
    [lex EXCEPT
       !.base_index = IF word.base_form # ""
                      THEN AppendTo(@, word.base_form, word) ELSE @,
       !.variant_index = IF word.base_form # ""
                         THEN AppendTo(@, word.base_form, word) ELSE @,
       !.id_index = IF word.id # "" THEN SetKey(@, word.id, word) ELSE @,
       !.category_index = IF word.category # ""
                          THEN AppendTo(@, word.category, word) ELSE @,
       !.raised = ""]

\* Lexicon.index_word: the indexes after the call, and whether it raised.
\* The base-form and variant entries are appended before the identifier is
\* checked.
index_word(lex, word) ==
    LET b == IF word.base_form # ""
             THEN AppendTo(lex.base_index, word.base_form, word)
             ELSE lex.base_index
        v == IF word.base_form # ""
             THEN AppendTo(lex.variant_index, word.base_form, word)
             ELSE lex.variant_index
        dup == word.id # "" /\ HasKey(lex.id_index, word.id)
    IN  IF dup
        THEN [lex EXCEPT !.base_index = b, !.variant_index = v,
                         !.raised = "ValueError"]
        ELSE [lex EXCEPT !.base_index = b, !.variant_index = v,
                         !.id_index = IF word.id # ""
                                      THEN SetKey(@, word.id, word) ELSE @,
                         !.category_index =
                             IF word.category # ""
                             THEN AppendTo(@, word.category, word) ELSE @,
                         !.raised = ""]

\* The lexicon object: its word set and four indexes.
Lexicon ==
    [words |-> words, id_index |-> id_index, base_index |-> base_index,
     variant_index |-> variant_index, category_index |-> category_index,
     raised |-> ""]

\* Lexicon.__init__ with auto_index=False
EmptyLex ==
    [words |-> {}, id_index |-> <<>>, base_index |-> <<>>,
     variant_index |-> <<>>, category_index |-> <<>>, raised |-> ""]

(***************************************************************************)
(* EnglishNounPhraseHelper.add_modifier (pynlg/helper/en.py).  A modifier  *)
(* is a Python value: None, a str, or an NLGElement of some class.         *)
(***************************************************************************)
PyNone == [py |-> "NoneType"]
PyOfAdjectivePhrase(preposed, complements) ==
    [py |-> "AdjectivePhraseElement",
     val |-> [category |-> ADJECTIVE_PHRASE,
              head |-> [Elem0 EXCEPT !.category = ADJECTIVE,
                                     !.base_form = "big",
                                     !.preposed = preposed],
              complements |-> complements]]
PyOfStringElement(string) ==
    [py |-> "StringElement",
     val |-> [category |-> "", realisation |-> string]]

\* isinstance(x, NLGElement)
NLGElementClasses ==
    {"WordElement", "StringElement", "AdjectivePhraseElement",
     "NounPhraseElement"}

\* bool(x) for a modifier: None and the empty str are false
PyTruthy(x) ==
    CASE x.py = "NoneType" -> FALSE
      [] x.py = "str" -> x.val # ""
      [] OTHER -> TRUE

\* The parameters of Lexicon.get, and the methods of Lexicon the helper calls
get_parameters == {"word_feature", "category"}
LexiconMethods == {"get", "first", "index_word", "make_indexes",
                   "indexed_words_by_category", "parse_xml_lexicon"}

\* ' ' in s
RECURSIVE HasSpace(_)
HasSpace(s) ==
    IF s = "" THEN FALSE
    ELSE IF CharAt(s, 1) = " " THEN TRUE ELSE HasSpace(Tail(s))

\* The second half of add_modifier: where the resolved node goes.
place_modifier(pre, post, modifier, modifier_element) ==
    IF ~PyTruthy(modifier_element)
    THEN [pre |-> pre,
          post |-> Append(post, PyOfStringElement(modifier.val)),
          raised |-> ""]
    ELSE IF modifier_element.py = "AdjectivePhraseElement"
    THEN IF modifier_element.val.head.preposed
            /\ modifier_element.val.complements = <<>>
         THEN [pre |-> Append(pre, modifier_element), post |-> post,
               raised |-> ""]
         ELSE [pre |-> pre, post |-> Append(post, modifier_element),
               raised |-> ""]
    ELSE IF modifier_element.val.category = ADJECTIVE
    THEN [pre |-> Append(pre, modifier_element), post |-> post,
          raised |-> ""]
    ELSE [pre |-> pre, post |-> Append(post, modifier_element),
          raised |-> ""]

\* add_modifier: the phrase's two modifier lists after the call, and the
\* exception it raised, if any.  A str modifier is looked up with
\* phrase.lexicon.get(modifier, create_if_missing=False), a keyword that
\* Lexicon.get does not take.
add_modifier(lex, pre, post, modifier) ==
    IF ~PyTruthy(modifier)
    THEN [pre |-> pre, post |-> post, raised |-> ""]
    ELSE IF modifier.py \in NLGElementClasses
    THEN place_modifier(pre, post, modifier, modifier)
    ELSE IF "create_if_missing" \notin get_parameters
    THEN [pre |-> pre, post |-> post, raised |-> "TypeError"]
    ELSE LET found == get(lex, modifier.val, ANY)
         IN  IF found.value # <<>>
             THEN place_modifier(pre, post, modifier,
                                 PyOfWord(found.value[1]))
             ELSE IF ~HasSpace(modifier.val)
             THEN IF "create_word" \notin LexiconMethods
                  THEN [pre |-> pre, post |-> post,
                        raised |-> "AttributeError"]
                  ELSE place_modifier(pre, post, modifier,
                           PyOfWord([Elem0 EXCEPT
                                       !.base_form = modifier.val,
                                       !.category = ADJECTIVE]))
             ELSE place_modifier(pre, post, modifier, PyOfStr(""))

(***************************************************************************)
(* Inputs of the lexicon and of the helper.                                *)
(***************************************************************************)
\* Keys: base forms and identifiers share one key space in get, and "two"
\* is the base form of some words and the identifier of others
BaseKeys == {"one", "two"}
IdKeys == {"two"}
LexCategories == {ADJECTIVE, NOUN}

\* Words a lexicon file can hold: base form and identifier are optional
LexWords ==
    { [Elem0 EXCEPT !.base_form = b, !.id = i, !.category = c] :
        b \in BaseKeys \cup {""}, i \in IdKeys \cup {""},
        c \in LexCategories }

QueryKeys == BaseKeys \cup IdKeys \cup {"zero"}
QueryCategories == LexCategories \cup {ANY}

RECURSIVE TotalLen(_)
TotalLen(index) ==
    IF DOMAIN index = {} THEN 0
    ELSE LET k == CHOOSE x \in DOMAIN index : TRUE
         IN  Len(index[k])
             + TotalLen([y \in DOMAIN index \ {k} |-> index[y]])

big == [Elem0 EXCEPT !.base_form = "big", !.id = "E1",
                     !.category = ADJECTIVE]
dog == [Elem0 EXCEPT !.base_form = "dog", !.id = "E2", !.category = NOUN]

Modifiers ==
    {PyNone, PyOfStr(""), PyOfStr("big"), PyOfStr("dog"), PyOfStr("shiny"),
     PyOfStr("on the hill"),
     PyOfWord(big), PyOfWord(dog),
     [py |-> "NounPhraseElement", val |-> Phrase0],
     PyOfStringElement("on the hill")}
    \cup { PyOfAdjectivePhrase(p, c) :
             p \in BOOLEAN, c \in {<<>>, <<PyOfStringElement("of it")>>} }

(***************************************************************************)
(* The lexicon as a state machine: words are indexed one at a time and the *)
(* indexes are queried.                                                    *)
(***************************************************************************)
Init ==
    /\ EmptyLexicon
    /\ premodifiers = <<>>
    /\ postmodifiers = <<>>
    /\ call = NoCall
    /\ ret = NoRet

SetLexicon(lex) ==
    /\ words' = lex.words
    /\ id_index' = lex.id_index
    /\ base_index' = lex.base_index
    /\ variant_index' = lex.variant_index
    /\ category_index' = lex.category_index

RoomToIndex ==
    /\ TotalLen(base_index) < MaxWords
    /\ TotalLen(category_index) < MaxWords

\* An iteration that indexes the word only when index_word accepts it.
MakeIndexesStepAllOrNothing ==
    /\ RoomToIndex
    /\ \E word \in LexWords :
         LET after == index_word([Lexicon EXCEPT !.words = @ \cup {word}],
                                 word)
         IN  /\ SetLexicon(IF after.raised = "" THEN after ELSE Lexicon)
             /\ call' = [op |-> "make_indexes", word |-> word]
             /\ ret' = IF after.raised = ""
                       THEN [kind |-> "ok", value |-> <<>>]
                       ELSE Raise(after.raised)
             /\ UNCHANGED phrasevars

\* One iteration of the loop of make_indexes: words.add(word), then
\* index_word(word)
MakeIndexesStep ==
    /\ RoomToIndex
    /\ \E word \in LexWords :
         LET after == index_word([Lexicon EXCEPT !.words = @ \cup {word}],
                                 word)
         IN  /\ SetLexicon(after)
             /\ call' = [op |-> "make_indexes", word |-> word]
             /\ ret' = IF after.raised = ""
                       THEN [kind |-> "ok", value |-> <<>>]
                       ELSE Raise(after.raised)
             /\ UNCHANGED phrasevars

\* lexicon.get(word_feature, category)
Get ==
    \E word_feature \in QueryKeys, category \in QueryCategories :
        /\ call' = [op |-> "get", word_feature |-> word_feature,
                    category |-> category]
        /\ ret' = get(Lexicon, word_feature, category)
        /\ UNCHANGED <<lexvars, phrasevars>>

\* lexicon.first(word_feature, category)
First ==
    \E word_feature \in QueryKeys, category \in QueryCategories :
        /\ call' = [op |-> "first", word_feature |-> word_feature,
                    category |-> category]
        /\ ret' = first(Lexicon, word_feature, category)
        /\ UNCHANGED <<lexvars, phrasevars>>

Next == MakeIndexesStep \/ Get \/ First

Spec == Init /\ [][Next]_vars

(***************************************************************************)
(* The noun-phrase helper as a state machine: modifiers are added to one   *)
(* phrase whose lexicon holds "big" and "dog".                             *)
(***************************************************************************)
InitHelper ==
    LET lex == index_word(index_word([EmptyLex EXCEPT !.words = {big, dog}],
                                     big), dog)
    IN  /\ words = lex.words
        /\ id_index = lex.id_index
        /\ base_index = lex.base_index
        /\ variant_index = lex.variant_index
        /\ category_index = lex.category_index
        /\ premodifiers = <<>>
        /\ postmodifiers = <<>>
        /\ call = NoCall
        /\ ret = NoRet

\* helper.add_modifier(phrase, modifier)
AddModifier ==
    /\ Len(premodifiers) + Len(postmodifiers) < MaxModifiers
    /\ \E modifier \in Modifiers :
         LET after == add_modifier(Lexicon, premodifiers, postmodifiers,
                                   modifier)
         IN  /\ premodifiers' = after.pre
             /\ postmodifiers' = after.post
             /\ call' = [op |-> "add_modifier", modifier |-> modifier]
             /\ ret' = IF after.raised = ""
                       THEN [kind |-> "ok", value |-> <<>>]
                       ELSE Raise(after.raised)
             /\ UNCHANGED lexvars

NextHelper == AddModifier

SpecHelper == InitHelper /\ [][NextHelper]_vars

(***************************************************************************)
(* Properties of the lexicon and of the helper.                            *)
(***************************************************************************)
\* The entries of ws whose category is the queried one (all of them for ANY)
OfCategory(ws, category) ==
    IF category = ANY THEN ws
    ELSE SelectSeq(ws, LAMBDA w : w.category = category)

C2_UnrecognisedTokenIsPremodifier ==
    ( /\ call.op = "add_modifier"
      /\ call.modifier.py = "str"
      /\ call.modifier.val # ""
      /\ ~HasSpace(call.modifier.val)
      /\ call.modifier.val \notin DOMAIN base_index
      /\ call.modifier.val \notin DOMAIN id_index )
    => /\ ret.kind = "ok"
       /\ premodifiers # <<>>
       /\ premodifiers[Len(premodifiers)].py = "WordElement"
       /\ premodifiers[Len(premodifiers)].val.category = ADJECTIVE
       /\ premodifiers[Len(premodifiers)].val.base_form = call.modifier.val

\* C14: an identifier match returns exactly one entry for every category.
\* When the key of a get or first is not in the base-form index and is in
\* the identifier index, get returns the list of the one Word registered
\* under that identifier, and first returns that Word, whether the category
\* argument is ANY or a specific category.
C14_IdMatchOneEntry ==
    ( /\ call.op \in {"get", "first"}
      /\ call.word_feature \notin DOMAIN base_index
      /\ call.word_feature \in DOMAIN id_index )
    => /\ ret.kind = "ok"
       /\ call.op = "get" => ret.value = <<id_index[call.word_feature]>>
       /\ call.op = "first" => ret.value = Some(id_index[call.word_feature])

\* The words indexed without error that carry the identifier: index_word
\* appends a word to the category index only after the identifier check
Registered(identifier) ==
    { <<c, i>> \in UNION { {c} \X DOMAIN category_index[c] :
                            c \in DOMAIN category_index } :
        category_index[c][i].id = identifier }

\* C15: a duplicate identifier is a fatal error.  A step of index_word on a
\* word whose identifier is already in the identifier index raises and
\* leaves the identifier index as it was, still mapping the identifier to
\* the first word registered; and at all times each identifier of the index
\* maps to the one word that was indexed without error under it.
C15_DuplicateIdRaises ==
    /\ [](\A k \in DOMAIN id_index :
            /\ id_index[k].id = k
            /\ \E r \in Registered(k) :
                  /\ Registered(k) = {r}
                  /\ category_index[r[1]][r[2]] = id_index[k])
    /\ [][ ( /\ call'.op = "make_indexes"
             /\ call'.word.id \in DOMAIN id_index )
           => /\ ret'.kind = "raise"
              /\ id_index' = id_index ]_vars

\* C15 witness: index_word has raised on a word whose identifier the index
\* maps to another word, registered before it.
C15_Witness ==
    /\ call.op = "make_indexes"
    /\ ret.kind = "raise"
    /\ call.word.id \in DOMAIN id_index
    /\ id_index[call.word.id] # call.word
    /\ id_index[call.word.id] \in words

\* The step is an iteration of make_indexes whose index_word raises
RejectedStep ==
    /\ call'.op = "make_indexes"
    /\ ret'.kind = "raise"

\* C26: a rejected registration leaves the lexicon unchanged.  When
\* index_word, called from make_indexes, raises because the identifier of
\* the word is already in the identifier index, the word set, the base-form
\* index, the surface-variant index and the category index are as they were
\* before the word was processed.
C26_RejectedLeavesLexicon ==
    [][ RejectedStep
        => /\ words' = words
           /\ base_index' = base_index
           /\ variant_index' = variant_index
           /\ category_index' = category_index ]_vars

\* The list-valued index after word is appended under its base form
WithBaseEntry(index, word) ==
    IF word.base_form = "" THEN index
    ELSE [k \in DOMAIN index \cup {word.base_form} |->
            IF k # word.base_form THEN index[k]
            ELSE IF k \in DOMAIN index THEN index[k] \o <<word>>
            ELSE <<word>>]

\* C26 as the code has it: a rejected registration leaves the identifier
\* index and the category index as they were, and the word is by then in
\* the word set and at the end of the entries of its base form in the
\* base-form and surface-variant indexes.
C26_RejectedPartlyIndexed ==
    [][ RejectedStep
        => /\ id_index' = id_index
           /\ category_index' = category_index
           /\ words' = words \cup {call'.word}
           /\ base_index' = WithBaseEntry(base_index, call'.word)
           /\ variant_index' = WithBaseEntry(variant_index, call'.word) ]_vars

\* C26 witness: index_word has raised on a word that is in the word set and
\* under its base form in the base-form index, and is in no entry of the
\* category index nor in the identifier index.
C26_Witness ==
    /\ call.op = "make_indexes"
    /\ ret.kind = "raise"
    /\ call.word \in words
    /\ call.word.base_form \in DOMAIN base_index
    /\ \E i \in DOMAIN base_index[call.word.base_form] :
          base_index[call.word.base_form][i] = call.word
    /\ \A c \in DOMAIN category_index :
          \A i \in DOMAIN category_index[c] :
             category_index[c][i] # call.word
    /\ id_index[call.word.id] # call.word

UnrecognisedString(modifier) ==
    /\ modifier.py = "str"
    /\ modifier.val # ""
    /\ modifier.val \notin {big.base_form, dog.base_form, big.id, dog.id}

\* C12: round trip.  After add_modifier(phrase, s) for an unrecognised str s
\* without whitespace, the call has returned, the lexicon holds one Word with
\* category adjective and base form s, and get(s) and first(s) return it.
C12_SynthesisedWordRetrievable ==
    ( /\ call.op = "add_modifier"
      /\ UnrecognisedString(call.modifier)
      /\ ~HasSpace(call.modifier.val) )
    => LET found == get(Lexicon, call.modifier.val, ANY)
       IN  /\ ret.kind = "ok"
           /\ found.kind = "ok"
           /\ Len(found.value) = 1
           /\ found.value[1].category = ADJECTIVE
           /\ found.value[1].base_form = call.modifier.val
           /\ first(Lexicon, call.modifier.val, ANY).value
                  = Some(found.value[1])

\* C13: a lexicon miss never fails the phrase build.  A step of add_modifier
\* on an unrecognised str s that contains whitespace raises nothing, appends
\* the String node of s to the end of the post-modifier list, and leaves the
\* pre-modifier list and the lexicon indexes as they were.
C13_OpaqueStringIsPostmodifier ==
    [][ ( /\ call'.op = "add_modifier"
          /\ UnrecognisedString(call'.modifier)
          /\ HasSpace(call'.modifier.val) )
        => /\ ret'.kind = "ok"
           /\ postmodifiers'
                  = Append(postmodifiers, PyOfStringElement(call'.modifier.val))
           /\ premodifiers' = premodifiers
           /\ UNCHANGED lexvars ]_vars

(***************************************************************************)
(* French morphology rules (pynlg/morphology/fr.py).  element.lexicon is   *)
(* the lexicon lex.                                                        *)
(***************************************************************************)
fr_get_base_form(element, base_word) ==
    IF element.category = VERB
    THEN IF Truthy(base_word) /\ The(base_word).base_form # ""
         THEN The(base_word).base_form
         ELSE element.base_form
    ELSE IF element.base_form # "" THEN element.base_form
         ELSE IF Truthy(base_word) THEN The(base_word).base_form
         ELSE ""

\* The entries of element.features, as opposed to the attributes of the
\* element (base form, category, identifier, base word, parent)
FeatureNames ==
    {"number", "gender", "person", "proper", "plural", "particle",
     "is_comparative", "is_superlative", "comparative", "superlative",
     "default_infl", "discourse_function", "passive", "possessive",
     "reflexive", "non_morph", "feminine_singular", "feminine_plural",
     "opposite_gender", "preposed"}

\* feature not in element.features
FeatureMissing(element, feature) ==
    CASE feature \in {"proper", "is_comparative", "is_superlative",
                      "possessive", "reflexive", "non_morph", "preposed"}
           -> element[feature] = FALSE
      [] feature = "passive" -> element[feature] = None
      [] OTHER -> element[feature] = ""

\* replace_element: the lexicon word of the new base form and
\* the old element's category, completed in place by the features of the
\* old element that it lacks.  first() returns [] when there is no such
\* word, and [] has no features.
replace_element(lex, old_element, new_element_base_form) ==
    LET found == first(lex, new_element_base_form, old_element.category)
    IN  IF found.kind # "ok" THEN Raise(found.exc)
        ELSE IF ~Truthy(found.value) THEN Raise("AttributeError")
        ELSE LET element == The(found.value)
             IN  [kind |-> "ok",
                  old |-> element,
                  value |-> [f \in DOMAIN element |->
                               IF f \in FeatureNames
                                  /\ FeatureMissing(element, f)
                               THEN old_element[f] ELSE element[f]]]

\* A feminisation that tries the "teur" rule before the "eur" rule.
feminize_teur_first(lex, element, realised) ==
    IF element.base_form = realised /\ element.feminine_singular # ""
    THEN element.feminine_singular
    ELSE IF EndsWith(realised, "el") \/ EndsWith(realised, "eil")
    THEN realised \o "le"
    ELSE IF EndsWith(realised, "as") THEN realised \o "se"
    ELSE IF EndsWith(realised, "en") \/ EndsWith(realised, "on")
    THEN realised \o "ne"
    ELSE IF EndsWith(realised, "et") THEN realised \o "te"
    ELSE IF EndsWith(realised, "eux") THEN DropLast(realised, 1) \o "se"
    ELSE IF EndsWith(realised, "er") THEN DropLast(realised, 2) \o "ère"
    ELSE IF EndsWith(realised, "eau") THEN DropLast(realised, 3) \o "elle"
    ELSE IF EndsWith(realised, "os") THEN realised \o "se"
    ELSE IF EndsWith(realised, "gu") THEN realised \o "ë"
    ELSE IF EndsWith(realised, "g") THEN realised \o "ue"
    ELSE IF EndsWith(realised, "teur") THEN DropLast(realised, 4) \o "trice"
    ELSE IF EndsWith(realised, "eur")
            /\ HasKey(lex.variant_index, DropLast(realised, 3) \o "ant")
    THEN DropLast(realised, 1) \o "se"
    ELSE IF EndsWith(realised, "if") THEN DropLast(realised, 1) \o "ve"
    ELSE realised \o "e"

feminize_singular_element(lex, element, realised) ==
    IF element.base_form = realised /\ element.feminine_singular # ""
    THEN element.feminine_singular
    ELSE IF EndsWith(realised, "el") \/ EndsWith(realised, "eil")
    THEN realised \o "le"
    ELSE IF EndsWith(realised, "as") THEN realised \o "se"
    ELSE IF EndsWith(realised, "en") \/ EndsWith(realised, "on")
    THEN realised \o "ne"
    ELSE IF EndsWith(realised, "et") THEN realised \o "te"
    ELSE IF EndsWith(realised, "eux") THEN DropLast(realised, 1) \o "se"
    ELSE IF EndsWith(realised, "er") THEN DropLast(realised, 2) \o "ère"
    ELSE IF EndsWith(realised, "eau") THEN DropLast(realised, 3) \o "elle"
    ELSE IF EndsWith(realised, "os") THEN realised \o "se"
    ELSE IF EndsWith(realised, "gu") THEN realised \o "ë"
    ELSE IF EndsWith(realised, "g") THEN realised \o "ue"
    ELSE IF EndsWith(realised, "eur")
            /\ HasKey(lex.variant_index, DropLast(realised, 3) \o "ant")
    THEN DropLast(realised, 1) \o "se"
    ELSE IF EndsWith(realised, "teur") THEN DropLast(realised, 4) \o "trice"
    ELSE IF EndsWith(realised, "if") THEN DropLast(realised, 1) \o "ve"
    ELSE realised \o "e"

\* A pluralize whose default case forgets the "s".
fr_pluralize_no_default_s(realised) ==
    IF EndsWith(realised, "s") \/ EndsWith(realised, "x")
       \/ EndsWith(realised, "z")
    THEN realised
    ELSE IF EndsWith(realised, "au") \/ EndsWith(realised, "eu")
    THEN realised \o "x"
    ELSE IF EndsWith(realised, "al") THEN DropLast(realised, 2) \o "aux"
    ELSE realised

fr_pluralize(realised) ==
    IF EndsWith(realised, "s") \/ EndsWith(realised, "x")
       \/ EndsWith(realised, "z")
    THEN realised
    ELSE IF EndsWith(realised, "au") \/ EndsWith(realised, "eu")
    THEN realised \o "x"
    ELSE IF EndsWith(realised, "al") THEN DropLast(realised, 2) \o "aux"
    ELSE realised \o "s"

\* s.replace(old, '') for a str old; replace('', '') leaves s as it is
RECURSIVE RemoveAll(_, _)
RemoveAll(s, old) ==
    IF old = "" \/ s = "" THEN s
    ELSE IF Len(s) >= Len(old) /\ SubSeq(s, 1, Len(old)) = old
         THEN RemoveAll(SubSeq(s, Len(old) + 1, Len(s)), old)
         ELSE CharAt(s, 1) \o RemoveAll(Tail(s), old)

\* s.strip()
RECURSIVE Strip(_)
Strip(s) ==
    IF s = "" THEN s
    ELSE IF CharAt(s, 1) = " " THEN Strip(Tail(s))
    ELSE IF LastChar(s) = " " THEN Strip(DropLast(s, 1))
    ELSE s

\* A morph_determiner that never contracts "des" to "de".
fr_morph_determiner_no_contraction(element) ==
    LET parent == element.parent
        gender == IF Truthy(parent) THEN The(parent).gender
                  ELSE element.gender
        plural_form ==
            IF gender = FEMININE /\ element.feminine_plural # ""
            THEN element.feminine_plural
            ELSE element.plural
    IN  IF is_plural(element)
        THEN Ok(plural_form, element)
        ELSE IF gender = FEMININE /\ element.feminine_singular # ""
        THEN Ok(element.feminine_singular, element)
        ELSE IF element.base_form = ""
        THEN Raise("AttributeError")  \* None.replace
        ELSE Ok(Strip(RemoveAll(element.base_form, element.particle)),
                element)

fr_morph_determiner(element) ==
    LET parent == element.parent
        gender == IF Truthy(parent) THEN The(parent).gender
                  ELSE element.gender
        plural_form ==
            IF gender = FEMININE /\ element.feminine_plural # ""
            THEN element.feminine_plural
            ELSE element.plural
    IN  IF is_plural(element)
        THEN IF Truthy(parent) /\ plural_form = "des"
                /\ The(parent).premodifiers # <<>>
             THEN Ok("de", element)
             ELSE Ok(plural_form, element)
        ELSE IF gender = FEMININE /\ element.feminine_singular # ""
        THEN Ok(element.feminine_singular, element)
        ELSE IF element.base_form = ""
        THEN Raise("AttributeError")  \* None.replace
        ELSE Ok(Strip(RemoveAll(element.base_form, element.particle)),
                element)

\* The for loop of morph_adjective over the complements of a verb phrase:
\* it breaks as soon as direct_object is set, and the assignment
\* "parent = direct_object" is inside the loop after the break, so it runs
\* only while direct_object is still None.  The parent is left as it was.
direct_object_parent(parent, discourse_function) ==
    IF parent.category = VERB_PHRASE
       /\ discourse_function \in {FRONT_MODIFIER, PRE_MODIFIER, POST_MODIFIER}
    THEN parent
    ELSE parent

\* An agreement that pluralises first and feminises the plural.
fr_agree_plural_first(lex, element, realised0) ==
    LET discourse_function ==
            IF Truthy(element.parent) /\ element.discourse_function = HEAD
            THEN The(element.parent).discourse_function
            ELSE element.discourse_function
        parent0 ==
            IF Truthy(element.parent)
            THEN IF The(element.parent).gender # ""
                    /\ Truthy(The(element.parent).parent)
                 THEN The(The(element.parent).parent)
                 ELSE The(element.parent)
            ELSE element
        parent == direct_object_parent(parent0, discourse_function)
        \* None has no endswith: the stored feminine form is the only way
        \* through for a missing realisation
        stored_feminine ==
            element.base_form = realised0 /\ element.feminine_singular # ""
        feminine ==
            IF is_feminine(element)
            THEN feminize_singular_element(lex, element, realised0)
            ELSE realised0
    IN  IF is_feminine(element) /\ realised0 = "" /\ ~stored_feminine
        THEN Raise("AttributeError")
        ELSE IF is_plural(parent)
        THEN IF is_feminine(element)
             THEN IF element.feminine_plural # ""
                  THEN Ok(element.feminine_plural \o element.particle,
                          element)
                  ELSE Ok(feminize_singular_element(
                              lex, element, realised0 \o "s")
                              \o element.particle, element)
             ELSE IF element.plural # ""
             THEN Ok(element.plural \o element.particle, element)
             ELSE IF feminine = "" THEN Raise("AttributeError")
             ELSE Ok(fr_pluralize(feminine) \o element.particle, element)
        ELSE Ok(PyStr(feminine) \o element.particle, element)

\* The second half of morph_adjective, from "Get gender from parent".
fr_agree_adjective(lex, element, realised0) ==
    LET discourse_function ==
            IF Truthy(element.parent) /\ element.discourse_function = HEAD
            THEN The(element.parent).discourse_function
            ELSE element.discourse_function
        parent0 ==
            IF Truthy(element.parent)
            THEN IF The(element.parent).gender # ""
                    /\ Truthy(The(element.parent).parent)
                 THEN The(The(element.parent).parent)
                 ELSE The(element.parent)
            ELSE element
        parent == direct_object_parent(parent0, discourse_function)
        \* None has no endswith: the stored feminine form is the only way
        \* through for a missing realisation
        stored_feminine ==
            element.base_form = realised0 /\ element.feminine_singular # ""
        feminine ==
            IF is_feminine(element)
            THEN feminize_singular_element(lex, element, realised0)
            ELSE realised0
    IN  IF is_feminine(element) /\ realised0 = "" /\ ~stored_feminine
        THEN Raise("AttributeError")
        ELSE IF is_plural(parent)
        THEN IF is_feminine(element)
             THEN IF element.feminine_plural # ""
                  THEN Ok(element.feminine_plural \o element.particle,
                          element)
                  ELSE Ok(feminine \o "s" \o element.particle, element)
             ELSE IF element.plural # ""
             THEN Ok(element.plural \o element.particle, element)
             ELSE IF feminine = "" THEN Raise("AttributeError")
             ELSE Ok(fr_pluralize(feminine) \o element.particle, element)
        ELSE Ok(PyStr(feminine) \o element.particle, element)

\* morph_adjective.  A comparative element is first replaced by the lexicon
\* word of its stored comparative form.
fr_morph_adjective(lex, element, base_word) ==
    LET base_form == fr_get_base_form(element, base_word)
    IN  IF element.is_comparative
        THEN LET replaced == replace_element(lex, element,
                                             element.comparative)
                 realised ==
                     IF element.comparative # "" THEN element.comparative
                     ELSE IF Truthy(base_word)
                             /\ The(base_word).comparative # ""
                     THEN The(base_word).comparative
                     ELSE base_form
             IN  IF replaced.kind # "ok" THEN Raise(replaced.exc)
                 ELSE fr_agree_adjective(lex, replaced.value, realised)
        ELSE fr_agree_adjective(lex, element, base_form)

\* The lexicon after morph_adjective: replace_element completes the
\* lexicon's own word in place, under every index that holds it.
ReplaceIn(ws, old, new) == [i \in DOMAIN ws |-> IF ws[i] = old THEN new
                                                ELSE ws[i]]
ReplaceWord(lex, old, new) ==
    [words |-> (lex.words \ {old}) \cup
                 (IF old \in lex.words THEN {new} ELSE {}),
     id_index |-> [k \in DOMAIN lex.id_index |->
                     IF lex.id_index[k] = old THEN new
                     ELSE lex.id_index[k]],
     base_index |-> [k \in DOMAIN lex.base_index |->
                       ReplaceIn(lex.base_index[k], old, new)],
     variant_index |-> [k \in DOMAIN lex.variant_index |->
                          ReplaceIn(lex.variant_index[k], old, new)],
     category_index |-> [k \in DOMAIN lex.category_index |->
                           ReplaceIn(lex.category_index[k], old, new)],
     raised |-> lex.raised]

fr_morph_adjective_lexicon(lex, element, base_word) ==
    IF element.is_comparative
    THEN LET replaced == replace_element(lex, element, element.comparative)
         IN  IF replaced.kind = "ok"
             THEN ReplaceWord(lex, replaced.old, replaced.value)
             ELSE lex
    ELSE lex

\* morph_noun.  The element is updated in place when the base word has the
\* opposite gender and names its counterpart.
fr_morph_noun(lex, element0, base_word) ==
    LET opposite ==
            /\ Truthy(base_word)
            /\ {The(base_word).gender, element0.gender}
                   = {MASCULINE, FEMININE}
            /\ The(base_word).opposite_gender # ""
        counterpart ==
            first(lex, The(base_word).opposite_gender, NOUN)
        element ==
            IF opposite
            THEN [element0 EXCEPT
                    !.base_form = The(base_word).opposite_gender,
                    !.base_word = counterpart.value]
            ELSE element0
        base_form == fr_get_base_form(element, base_word)
    IN  IF is_plural(element) /\ ~element.proper
        THEN IF element.plural # "" /\ Truthy(base_word)
             THEN Ok(PyStr(The(base_word).plural) \o element.particle,
                     element)
             ELSE IF base_form = ""
                  THEN Raise("AttributeError")  \* None.endswith
                  ELSE Ok(fr_pluralize(base_form) \o element.particle,
                          element)
        ELSE Ok(PyStr(base_form) \o element.particle, element)

\* morph_adverb.  base_word.comparative is read on the base word that was
\* passed, None included.
fr_morph_adverb(element, base_word) ==
    LET base_form == fr_get_base_form(element, base_word)
    IN  IF element.is_comparative
        THEN IF element.comparative # ""
             THEN Ok(element.comparative \o element.particle, element)
             ELSE IF ~Truthy(base_word) THEN Raise("AttributeError")
             ELSE IF The(base_word).comparative # ""
             THEN Ok(The(base_word).comparative \o element.particle,
                     element)
             ELSE Ok(PyStr(base_form) \o element.particle, element)
        ELSE Ok(PyStr(base_form) \o element.particle, element)

(***************************************************************************)
(* The French lexicon and the morphology pass over a realised phrase.      *)
(***************************************************************************)
FrWord(base, category, id) ==
    [Elem0 EXCEPT !.base_form = base, !.category = category, !.id = id]

fr_un == [FrWord("un", DETERMINER, "F1") EXCEPT
            !.plural = "des", !.feminine_singular = "une"]
fr_maison == [FrWord("maison", NOUN, "F2") EXCEPT !.gender = FEMININE]
fr_beau == [FrWord("beau", ADJECTIVE, "F3") EXCEPT
              !.feminine_singular = "belle", !.preposed = TRUE]
fr_perdu == FrWord("perdu", ADJECTIVE, "F4")

FrenchWords ==
    <<fr_un, fr_maison, fr_beau, fr_perdu,
      [FrWord("bon", ADJECTIVE, "F5") EXCEPT
         !.comparative = "meilleur", !.preposed = TRUE],
      [FrWord("meilleur", ADJECTIVE, "F6") EXCEPT !.preposed = TRUE],
      FrWord("mentant", ADJECTIVE, "F7"),
      [FrWord("acteur", NOUN, "F8") EXCEPT
         !.gender = MASCULINE, !.opposite_gender = "actrice"],
      [FrWord("actrice", NOUN, "F9") EXCEPT
         !.gender = FEMININE, !.opposite_gender = "acteur"],
      [FrWord("bien", ADVERB, "F10") EXCEPT !.comparative = "mieux"],
      [FrWord("aïeul", NOUN, "F11") EXCEPT
         !.gender = MASCULINE, !.plural = "aïeux",
         !.opposite_gender = "aïeule"],
      [FrWord("aïeule", NOUN, "F12") EXCEPT
         !.gender = FEMININE, !.opposite_gender = "aïeul"]>>

\* make_indexes over the words of the French lexicon file
RECURSIVE make_indexes(_, _)
make_indexes(lex, ws) ==
    IF ws = <<>> THEN lex
    ELSE make_indexes(
             index_word([lex EXCEPT !.words = @ \cup {Head(ws)}], Head(ws)),
             Tail(ws))

FrenchLexicon == make_indexes(EmptyLex, FrenchWords)

\* A child of the realised phrase during the morphology pass: gender and
\* number set on the phrase override the child's own, and its parent is the
\* realised phrase, a list node with the features set on it and no modifier
\* lists of its own.
InPhrase(word, gender, number) ==
    [word EXCEPT !.gender = IF gender # "" THEN gender ELSE @,
                 !.number = IF number # "" THEN number ELSE @,
                 !.parent = Some([Phrase0 EXCEPT !.gender = gender,
                                                 !.number = number])]

\* The rule of a child's category
fr_morph(lex, element) ==
    CASE element.category = DETERMINER -> fr_morph_determiner(element)
      [] element.category = ADJECTIVE -> fr_morph_adjective(lex, element, None)
      [] element.category = NOUN -> fr_morph_noun(lex, element, None)
      [] element.category = ADVERB -> fr_morph_adverb(element, None)
      [] OTHER -> Ok(element.base_form, element)

\* realise_morphology of a realised phrase: one result per component
realise_morphology(lex, components, gender, number) ==
    [i \in DOMAIN components |->
        fr_morph(lex, InPhrase(components[i], gender, number))]

(***************************************************************************)
(* Inputs of the French rules.                                             *)
(***************************************************************************)
FrAdjectiveForms ==
    {"beau", "perdu", "cruel", "gras", "bon", "muet", "heureux", "cher",
     "gros", "aigu", "long", "menteur", "protecteur", "vif", "royal",
     "banal", "relax"}
FrNounForms == {"maison", "cheval", "acteur", "nez", "feu", "aïeul"}
FrAdverbForms == {"bien", "vite"}
Genders == {"", MASCULINE, FEMININE}

\* The forms a French lexicon entry may hold ("" when it has none)
FrStored(form) ==
    [comparative |-> CASE form = "bon" -> "meilleur"
                       [] form = "bien" -> "mieux" [] OTHER -> "",
     feminine_singular |-> CASE form = "beau" -> "belle"
                             [] form = "relax" -> "relax" [] OTHER -> "",
     feminine_plural |-> CASE form = "beau" -> "belles"
                           [] form = "relax" -> "relax" [] OTHER -> "",
     opposite_gender |-> CASE form = "acteur" -> "actrice"
                           [] form = "aïeul" -> "aïeule" [] OTHER -> "",
     plural |-> CASE form = "cheval" -> "chevaux"
                  [] form = "aïeul" -> "aïeux"
                  [] form = "banal" -> "banals" [] OTHER -> ""]

\* Parents, with or without a grandparent: a verb phrase with a plural
\* direct object
FrParents ==
    {None} \cup
    { Some([Phrase0 EXCEPT !.category = c, !.gender = g, !.number = n,
                           !.discourse_function = POST_MODIFIER,
                           !.premodifiers = pre, !.parent = gp]) :
        c \in {NOUN_PHRASE, VERB_PHRASE}, g \in {"", FEMININE},
        n \in {"", PLURAL}, pre \in {<<>>, <<fr_beau>>},
        gp \in {None,
                 Some([Phrase0 EXCEPT
                         !.category = VERB_PHRASE,
                         !.complements =
                             << [Phrase0 EXCEPT
                                   !.discourse_function = OBJECT,
                                   !.number = PLURAL] >>])} }

FrAdjectiveElements(form) ==
    { [Elem0 EXCEPT !.base_form = bf, !.category = ADJECTIVE,
                    !.gender = g, !.number = n, !.is_comparative = c,
                    !.comparative = stored,
                    !.feminine_singular = FrStored(form).feminine_singular,
                    !.feminine_plural = fp, !.plural = pl,
                    !.discourse_function = df, !.parent = parent] :
        bf \in {form, ""}, g \in {"", FEMININE}, n \in {"", PLURAL},
        c \in BOOLEAN, stored \in {"", FrStored(form).comparative},
        fp \in {"", FrStored(form).feminine_plural},
        pl \in {"", FrStored(form).plural},
        df \in {HEAD, PRE_MODIFIER},
        parent \in { q \in FrParents :
                       q = None \/ The(q).premodifiers = <<>> } }

FrBaseWords(form, category) ==
    {None,
     Some([Elem0 EXCEPT !.base_form = form, !.category = category,
                        !.comparative = FrStored(form).comparative,
                        !.plural = FrStored(form).plural,
                        !.gender = IF category = NOUN THEN MASCULINE
                                   ELSE "",
                        !.opposite_gender = FrStored(form).opposite_gender])}

FrNounElements(form) ==
    { [Elem0 EXCEPT !.base_form = bf, !.category = NOUN, !.gender = g,
                    !.number = n, !.proper = proper,
                    !.plural = stored, !.particle = particle] :
        bf \in {form, ""}, g \in Genders, n \in Numbers,
        proper \in BOOLEAN, stored \in {"", FrStored(form).plural},
        particle \in {"", "-ci"} }

FrDeterminerElements ==
    { [w EXCEPT !.gender = g, !.number = n, !.parent = parent] :
        w \in {fr_un,
               [FrWord("le", DETERMINER, "") EXCEPT
                  !.plural = "les", !.feminine_singular = "la"],
               [FrWord("ce -ci", DETERMINER, "") EXCEPT
                  !.plural = "ces -ci", !.particle = "-ci"],
               [FrWord("tout", DETERMINER, "") EXCEPT
                  !.plural = "tous", !.feminine_singular = "toute",
                  !.feminine_plural = "toutes"]},
        g \in Genders, n \in Numbers,
        parent \in { q \in FrParents :
                       q = None \/ The(q).parent = None } }

FrAdverbElements(form) ==
    { [Elem0 EXCEPT !.base_form = bf, !.category = ADVERB,
                    !.is_comparative = c, !.comparative = stored] :
        bf \in {form, ""}, c \in BOOLEAN,
        stored \in {"", FrStored(form).comparative} }

\* The realised components of make_noun_phrase(specifier=un, noun=maison,
\* modifiers=[beau, perdu]), in order
ScenarioComponents == <<fr_un, fr_beau, fr_maison, fr_perdu>>

(***************************************************************************)
(* The French rules as a state machine over the French lexicon: one call   *)
(* per behaviour.                                                          *)
(***************************************************************************)
InitFr ==
    /\ words = FrenchLexicon.words
    /\ id_index = FrenchLexicon.id_index
    /\ base_index = FrenchLexicon.base_index
    /\ variant_index = FrenchLexicon.variant_index
    /\ category_index = FrenchLexicon.category_index
    /\ premodifiers = <<>>
    /\ postmodifiers = <<>>
    /\ call = NoCall
    /\ ret = NoRet

FrMorphDeterminer ==
    /\ call = NoCall
    /\ \E element \in FrDeterminerElements :
         /\ call' = [op |-> "fr_morph_determiner", element |-> element,
                     base_word |-> None]
         /\ ret' = fr_morph_determiner(element)
         /\ UNCHANGED <<lexvars, phrasevars>>

FrMorphAdjective ==
    /\ call = NoCall
    /\ \E form \in FrAdjectiveForms :
       \E element \in FrAdjectiveElements(form),
          base_word \in FrBaseWords(form, ADJECTIVE) :
         /\ call' = [op |-> "fr_morph_adjective", element |-> element,
                     base_word |-> base_word]
         /\ ret' = fr_morph_adjective(Lexicon, element, base_word)
         /\ SetLexicon(fr_morph_adjective_lexicon(Lexicon, element,
                                                  base_word))
         /\ UNCHANGED phrasevars

FrMorphNoun ==
    /\ call = NoCall
    /\ \E form \in FrNounForms :
       \E element \in FrNounElements(form),
          base_word \in FrBaseWords(form, NOUN) :
         /\ call' = [op |-> "fr_morph_noun", element |-> element,
                     base_word |-> base_word]
         /\ ret' = fr_morph_noun(Lexicon, element, base_word)
         /\ UNCHANGED <<lexvars, phrasevars>>

FrMorphAdverb ==
    /\ call = NoCall
    /\ \E form \in FrAdverbForms :
       \E element \in FrAdverbElements(form),
          base_word \in FrBaseWords(form, ADVERB) :
         /\ call' = [op |-> "fr_morph_adverb", element |-> element,
                     base_word |-> base_word]
         /\ ret' = fr_morph_adverb(element, base_word)
         /\ UNCHANGED <<lexvars, phrasevars>>

\* feminize_singular_element is a static method: called on an element and
\* any realisation
FrFeminize ==
    /\ call = NoCall
    /\ \E form \in FrAdjectiveForms, realised \in FrAdjectiveForms,
          stored \in BOOLEAN :
         LET element ==
                 [Elem0 EXCEPT
                    !.base_form = form, !.category = ADJECTIVE,
                    !.feminine_singular =
                        IF stored THEN FrStored(form).feminine_singular
                        ELSE ""]
         IN  /\ call' = [op |-> "feminize_singular_element",
                         element |-> element, realised |-> realised]
             /\ ret' = Ok(feminize_singular_element(Lexicon, element,
                                                    realised), element)
             /\ UNCHANGED <<lexvars, phrasevars>>

\* phrase.realise_morphology() on the realised noun phrase, with gender and
\* number set either on the phrase or on each of its components
RealiseMorphology ==
    /\ call = NoCall
    /\ \E gender \in Genders, number \in Numbers,
          on \in {"phrase", "components"} :
         LET components ==
                 IF on = "phrase" THEN ScenarioComponents
                 ELSE [i \in DOMAIN ScenarioComponents |->
                         [ScenarioComponents[i] EXCEPT
                            !.gender = IF gender # "" THEN gender ELSE @,
                            !.number = number]]
             results ==
                 IF on = "phrase"
                 THEN realise_morphology(Lexicon, components, gender,
                                         number)
                 ELSE realise_morphology(Lexicon, components, "", "")
         IN  /\ call' = [op |-> "realise_morphology", on |-> on,
                         gender |-> gender, number |-> number,
                         components |-> components]
             /\ ret' = [kind |-> "ok",
                        tokens |-> [i \in DOMAIN results |->
                                      results[i].realisation]]
             /\ UNCHANGED <<lexvars, phrasevars>>

NextFr ==
    \/ FrMorphDeterminer
    \/ FrMorphAdjective
    \/ FrMorphNoun
    \/ FrMorphAdverb
    \/ FrFeminize
    \/ RealiseMorphology

SpecFr == InitFr /\ [][NextFr]_vars

C4_ComparativeNeverRaises ==
    ( /\ call.op \in {"fr_morph_adjective", "fr_morph_adverb"}
      /\ call.element.is_comparative
      /\ call.element.comparative = ""
      /\ call.element.base_form # ""
      /\ \/ call.base_word = None
         \/ The(call.base_word).comparative = "" )
    => ret.kind = "ok"

\* The documented feminisation table, in order: the suffixes of a rule, the
\* number of letters it drops and the letters it adds.  Rule 11 also needs
\* the present participle (the form without "eur", plus "ant") to be a key
\* of the lexicon.
FeminineTable ==
    << [suffixes |-> {"el", "eil"}, drop |-> 0, add |-> "le"],
       [suffixes |-> {"as"}, drop |-> 0, add |-> "se"],
       [suffixes |-> {"en", "on"}, drop |-> 0, add |-> "ne"],
       [suffixes |-> {"et"}, drop |-> 0, add |-> "te"],
       [suffixes |-> {"eux"}, drop |-> 1, add |-> "se"],
       [suffixes |-> {"er"}, drop |-> 2, add |-> "ère"],
       [suffixes |-> {"eau"}, drop |-> 3, add |-> "elle"],
       [suffixes |-> {"os"}, drop |-> 0, add |-> "se"],
       [suffixes |-> {"gu"}, drop |-> 0, add |-> "ë"],
       [suffixes |-> {"g"}, drop |-> 0, add |-> "ue"],
       [suffixes |-> {"eur"}, drop |-> 1, add |-> "se"],
       [suffixes |-> {"teur"}, drop |-> 4, add |-> "trice"],
       [suffixes |-> {"if"}, drop |-> 1, add |-> "ve"] >>

ParticipleInLexicon(realised) ==
    \E k \in DOMAIN variant_index : k = DropLast(realised, 3) \o "ant"

MatchingRules(realised) ==
    { i \in DOMAIN FeminineTable :
        /\ \E suffix \in FeminineTable[i].suffixes : EndsWith(realised, suffix)
        /\ i = 11 => ParticipleInLexicon(realised) }

FirstMatch(realised) ==
    IF MatchingRules(realised) = {} THEN realised \o "e"
    ELSE LET i == CHOOSE j \in MatchingRules(realised) :
                      \A k \in MatchingRules(realised) : j <= k
         IN  DropLast(realised, FeminineTable[i].drop)
                 \o FeminineTable[i].add

\* The table applies: no feminine singular form stored for this realisation
CallFeminizeByTable ==
    /\ call.op = "feminize_singular_element"
    /\ ~(call.element.base_form = call.realised
         /\ call.element.feminine_singular # "")

\* C11: French feminisation is an ordered first-match table.  A form that
\* matches several suffix patterns is rewritten by the first matching rule
\* of the documented order; a form ending in "teur" whose present participle
\* is in the lexicon drops its last letter and takes "se", and one whose
\* present participle is not in the lexicon drops "teur" and takes "trice".
C11_FeminisationFirstMatch ==
    CallFeminizeByTable =>
        /\ ret.realisation = FirstMatch(call.realised)
        /\ EndsWith(call.realised, "teur") =>
              ret.realisation =
                  IF ParticipleInLexicon(call.realised)
                  THEN DropLast(call.realised, 1) \o "se"
                  ELSE DropLast(call.realised, 4) \o "trice"

\* C11 witness: "menteur", matching both the "eur" and the "teur" rule with
\* "mentant" in the lexicon, has been feminised to "menteuse".
C11_Witness ==
    /\ CallFeminizeByTable
    /\ call.realised = "menteur"
    /\ {11, 12} \subseteq MatchingRules(call.realised)
    /\ ret.realisation = "menteuse"

\* C17: lexicon entries are immutable after load.  No step of a French
\* morphology rule (morph_determiner, morph_adjective, morph_noun,
\* morph_adverb, or the morphology pass over a phrase) changes a Word held
\* by the lexicon indexes: the word set and the four indexes are the same
\* after the call as before it, so a lookup returns the same entries with
\* the same features.
C17_LexiconImmutable ==
    [][ call'.op \in {"fr_morph_determiner", "fr_morph_adjective",
                      "fr_morph_noun", "fr_morph_adverb",
                      "realise_morphology"}
        => /\ UNCHANGED lexvars
           /\ \A key \in DOMAIN base_index :
                 get(Lexicon, key, ANY)
                     = get([words |-> words', id_index |-> id_index',
                            base_index |-> base_index',
                            variant_index |-> variant_index',
                            category_index |-> category_index',
                            raised |-> ""], key, ANY) ]_vars

\* C18: pluralize(s) on the bare string returns the correct English plural,
\* irregular and invariant forms included: person -> people, fish -> fish,
\* child -> children, book -> books, octopus -> octopodes, index -> indices,
\* aquarium -> aquaria, analysis -> analyses.
C18_PluralizeIrregulars ==
    ( /\ call.op = "en_pluralize"
      /\ call.realised \in DOMAIN test_pluralize )
    => /\ ret.kind = "ok"
       /\ ret.realisation = test_pluralize[call.realised]

\* The agreement ancestor of the adjective of the call: its parent, or the
\* grandparent when the parent has a gender and a parent of its own
AgreementAncestor ==
    LET parent == The(call.element.parent)
    IN  IF parent.gender # "" /\ Truthy(parent.parent)
        THEN The(parent.parent) ELSE parent

\* The discourse role morph_adjective goes by: the parent's for a head
CallDiscourseRole ==
    IF call.element.discourse_function = HEAD
    THEN The(call.element.parent).discourse_function
    ELSE call.element.discourse_function

\* A modifier adjective, not comparative and with a base form, whose
\* agreement ancestor is a verb phrase without number and with a plural
\* direct object
CallUnderVerbPhrase ==
    /\ call.op = "fr_morph_adjective"
    /\ ~call.element.is_comparative
    /\ call.element.base_form # ""
    /\ Truthy(call.element.parent)
    /\ AgreementAncestor.category = VERB_PHRASE
    /\ ~is_plural(AgreementAncestor)
    /\ CallDiscourseRole \in {FRONT_MODIFIER, PRE_MODIFIER, POST_MODIFIER}
    /\ \E i \in DOMAIN AgreementAncestor.complements :
         /\ AgreementAncestor.complements[i].discourse_function = OBJECT
         /\ is_plural(AgreementAncestor.complements[i])

\* C19: French adjective agreement inside a verb phrase.  A modifier
\* adjective whose agreement ancestor is a singular verb phrase with a
\* plural direct-object complement takes its number from the direct object
\* and is realised plural: the pluralised base form, or, when feminine,
\* the feminised form with its plural ending.
C19_DirectObjectAgreement ==
    CallUnderVerbPhrase =>
        /\ ret.kind = "ok"
        /\ ret.realisation =
              IF is_feminine(call.element)
              THEN feminize_singular_element(Lexicon, call.element,
                                             call.element.base_form) \o "s"
              ELSE fr_pluralize(call.element.base_form)

\* The base form morph_adjective starts from
CallAdjectiveBaseForm ==
    IF call.element.base_form # "" THEN call.element.base_form
    ELSE IF Truthy(call.base_word) THEN The(call.base_word).base_form
    ELSE ""

\* A call of morph_adjective on an adjective that is not comparative and
\* has a base form, under a plural agreement source
CallUnderPlural ==
    /\ call.op = "fr_morph_adjective"
    /\ ~call.element.is_comparative
    /\ CallAdjectiveBaseForm # ""
    /\ is_plural(IF Truthy(call.element.parent) THEN AgreementAncestor
                 ELSE call.element)

\* The feminine singular form: the declared one for the base form of the
\* element, else the first matching rule of the feminisation table
FeminisedSingular ==
    IF call.element.base_form = CallAdjectiveBaseForm
       /\ call.element.feminine_singular # ""
    THEN call.element.feminine_singular
    ELSE FirstMatch(CallAdjectiveBaseForm)

\* The composition of the feminine and plural rules; the plural of a
\* feminised form is made by the pluralisation rule, or by adding "s"
ComposedForm(by_rule) ==
    IF is_feminine(call.element)
    THEN IF call.element.feminine_plural # ""
         THEN call.element.feminine_plural
         ELSE IF by_rule THEN fr_pluralize(FeminisedSingular)
         ELSE FeminisedSingular \o "s"
    ELSE IF call.element.plural # "" THEN call.element.plural
         ELSE fr_pluralize(CallAdjectiveBaseForm)

\* C20 as stated: for a feminine adjective under a plural agreement source
\* the result is the declared feminine-plural form, else the French
\* pluralisation rule (unchanged after s/x/z, "x" after au/eu, al -> aux,
\* else "s") applied to the feminised singular form; for a non-feminine
\* adjective it is the declared plural, else that rule applied to the base
\* form.
C20_Original ==
    CallUnderPlural =>
        /\ ret.kind = "ok"
        /\ ret.realisation
              = ComposedForm(TRUE) \o call.element.particle

\* C20 amended: for a feminine adjective under a plural agreement source
\* the result is the declared feminine-plural form, else the feminised
\* singular form followed by "s", whatever its ending; for a non-feminine
\* adjective it is the declared plural, else the French pluralisation rule
\* applied to the base form.
C20_Amended ==
    CallUnderPlural =>
        /\ ret.kind = "ok"
        /\ ret.realisation
              = ComposedForm(FALSE) \o call.element.particle

\* C20 witness: the feminine "cruel" without a declared feminine plural,
\* under a plural agreement source, realised as "cruelles".
C20_Witness ==
    /\ CallUnderPlural
    /\ is_feminine(call.element)
    /\ call.element.feminine_plural = ""
    /\ CallAdjectiveBaseForm = "cruel"
    /\ ret.realisation = "cruelles"

\* The governing gender of the determiner of the call: the parent's when
\* it has a parent, its own otherwise
GoverningGender ==
    IF Truthy(call.element.parent) THEN The(call.element.parent).gender
    ELSE call.element.gender

\* C21: the decision table of French morph_determiner.  A plural determiner
\* takes its declared feminine-plural form when the governing gender is
\* feminine and one is declared, else its declared plural form, and "des"
\* becomes "de" when the governed noun phrase carries pre-modifiers; a
\* singular determiner under a feminine governing gender takes its declared
\* feminine-singular form; in every remaining case the result is the base
\* form with its particle removed and the blanks around it stripped.
C21_DeterminerTable ==
    call.op = "fr_morph_determiner" =>
        LET element == call.element
            plural_form ==
                IF GoverningGender = FEMININE /\ element.feminine_plural # ""
                THEN element.feminine_plural ELSE element.plural
        IN  /\ ret.kind = "ok"
            /\ ret.realisation =
                  IF element.number = PLURAL
                  THEN IF /\ plural_form = "des"
                          /\ Truthy(element.parent)
                          /\ The(element.parent).premodifiers # <<>>
                       THEN "de" ELSE plural_form
                  ELSE IF GoverningGender = FEMININE
                          /\ element.feminine_singular # ""
                  THEN element.feminine_singular
                  ELSE Strip(RemoveAll(element.base_form, element.particle))

\* C21 witness: the plural "un" under a noun phrase that carries a
\* pre-modifier has been realised as "de".
C21_Witness ==
    /\ call.op = "fr_morph_determiner"
    /\ call.element.base_form = "un"
    /\ call.element.number = PLURAL
    /\ Truthy(call.element.parent)
    /\ The(call.element.parent).premodifiers # <<>>
    /\ ret.realisation = "de"

\* A call of morph_noun whose element and base word have opposite genders,
\* the base word naming its counterpart
CallOppositeGender ==
    /\ call.op = "fr_morph_noun"
    /\ Truthy(call.base_word)
    /\ {The(call.base_word).gender, call.element.gender}
           = {MASCULINE, FEMININE}
    /\ The(call.base_word).opposite_gender # ""

\* C22: opposite-gender substitution in French morph_noun.  When the
\* element and the base word have opposite genders and the base word names
\* a counterpart, the element's base form and base word become the
\* counterpart, and the realised form is derived from the counterpart: for
\* a plural common noun the counterpart's stored plural, or the
\* pluralisation rule applied to the counterpart, and never a form of the
\* original base word.  Otherwise nothing is substituted.
C22_OppositeGenderCounterpart ==
    call.op = "fr_morph_noun" =>
        IF CallOppositeGender
        THEN LET base_form == The(call.base_word).opposite_gender
                 counterpart == first(Lexicon, base_form, NOUN).value
                 stored == IF Truthy(counterpart) THEN The(counterpart).plural
                           ELSE ""
             IN  /\ ret.kind = "ok"
                 /\ ret.word.base_form = base_form
                 /\ ret.word.base_word = counterpart
                 /\ ret.realisation =
                       (IF is_plural(call.element) /\ ~call.element.proper
                        THEN IF stored # "" THEN stored
                             ELSE fr_pluralize(base_form)
                        ELSE base_form) \o call.element.particle
        ELSE ret.kind = "ok" =>
                 /\ ret.word.base_form = call.element.base_form
                 /\ ret.word.base_word = call.element.base_word

(***************************************************************************)
(* Lexicon loading (pynlg/lexicon/lexicon.py, word_from_node).  A word     *)
(* node is its tag and the list of its feature nodes, each a tag and a     *)
(* text ("" for a node without text).                                      *)
(***************************************************************************)
MaxFeatureNodes == 3

INFL_CODES ==
    {"reg", "irreg", "uncount", "inv", "metareg", "glreg", "nonCount",
     "sing", "groupuncount"}

\* str.upper() over the letters of the category names
RECURSIVE upper(_)
upper(s) ==
    LET lower == "abcdefghijklmnopqrstuvwxyz"
        capital == "ABCDEFGHIJKLMNOPQRSTUVWXYZ"
        c == CharAt(s, 1)
    IN  IF s = "" THEN ""
        ELSE (IF \E i \in 1..Len(lower) : CharAt(lower, i) = c
              THEN CharAt(capital,
                          CHOOSE i \in 1..Len(lower) : CharAt(lower, i) = c)
              ELSE c) \o upper(Tail(s))

\* The loop of word_from_node over the feature nodes: the word so far, the
\* inflection codes so far, and the exception raised, if any.  A category
\* node without text has the value None, which has no upper().
RECURSIVE read_feature_nodes(_, _, _)
\* A loop that takes every node with an inflection tag as a code, text or
\* not.
read_feature_nodes_any_body(feature_nodes, word, inflections) ==
    IF feature_nodes = <<>>
    THEN [word |-> word, inflections |-> inflections, raised |-> ""]
    ELSE LET feature_name == Strip(Head(feature_nodes).tag)
             feature_value == Strip(Head(feature_nodes).text)
             rest == Tail(feature_nodes)
         IN  IF feature_name = "base"
             THEN read_feature_nodes(
                      rest, [word EXCEPT !.base_form = feature_value],
                      inflections)
             ELSE IF feature_name = "id"
             THEN read_feature_nodes(
                      rest, [word EXCEPT !.id = feature_value], inflections)
             ELSE IF feature_name = "category"
             THEN IF Head(feature_nodes).text = ""
                  THEN [word |-> word, inflections |-> inflections,
                        raised |-> "AttributeError"]
                  ELSE read_feature_nodes(
                           rest,
                           [word EXCEPT !.category = upper(feature_value)],
                           inflections)
             ELSE IF feature_name \in INFL_CODES
             THEN read_feature_nodes(rest, word,
                                     Append(inflections, feature_name))
             ELSE IF feature_value = ""
             THEN IF FALSE THEN [word |-> word, inflections |-> inflections,
                                 raised |-> ""]
                  ELSE read_feature_nodes(
                           rest,
                           [word EXCEPT !.features =
                              SetKey(@, feature_name,
                                     [py |-> "bool", val |-> TRUE])],
                           inflections)
             ELSE read_feature_nodes(
                      rest,
                      [word EXCEPT !.features =
                         SetKey(@, feature_name, PyOfStr(feature_value))],
                      inflections)

read_feature_nodes(feature_nodes, word, inflections) ==
    IF feature_nodes = <<>>
    THEN [word |-> word, inflections |-> inflections, raised |-> ""]
    ELSE LET feature_name == Strip(Head(feature_nodes).tag)
             feature_value == Strip(Head(feature_nodes).text)
             rest == Tail(feature_nodes)
         IN  IF feature_name = "base"
             THEN read_feature_nodes(
                      rest, [word EXCEPT !.base_form = feature_value],
                      inflections)
             ELSE IF feature_name = "id"
             THEN read_feature_nodes(
                      rest, [word EXCEPT !.id = feature_value], inflections)
             ELSE IF feature_name = "category"
             THEN IF Head(feature_nodes).text = ""
                  THEN [word |-> word, inflections |-> inflections,
                        raised |-> "AttributeError"]
                  ELSE read_feature_nodes(
                           rest,
                           [word EXCEPT !.category = upper(feature_value)],
                           inflections)
             ELSE IF feature_value = ""
             THEN IF feature_name \in INFL_CODES
                  THEN read_feature_nodes(rest, word,
                                          Append(inflections, feature_name))
                  ELSE read_feature_nodes(
                           rest,
                           [word EXCEPT !.features =
                              SetKey(@, feature_name,
                                     [py |-> "bool", val |-> TRUE])],
                           inflections)
             ELSE read_feature_nodes(
                      rest,
                      [word EXCEPT !.features =
                         SetKey(@, feature_name, PyOfStr(feature_value))],
                      inflections)

\* A word_from_node whose default inflection is the first declared code.
word_from_node_first_code(word_node) ==
    IF word_node.tag # "word" THEN {[kind |-> "ok", value |-> None]}
    ELSE LET read == read_feature_nodes(
                         word_node.feature_nodes,
                         [base_form |-> "", id |-> "", category |-> "",
                          features |-> <<>>], <<>>)
             inflections == IF read.inflections # <<>> THEN read.inflections
                            ELSE <<"reg">>
         IN  IF read.raised # "" THEN {Raise(read.raised)}
             ELSE { [kind |-> "ok",
                     value |-> Some(
                         [base_form |-> read.word.base_form,
                          id |-> read.word.id,
                          category |-> read.word.category,
                          features |-> read.word.features,
                          default_inflection_variant |-> inflections[1],
                          inflection_variants |-> inflections])] }

\* word_from_node: the set of its possible results, one per outcome of
\* random.choice.  None for a node that is not a word node.
word_from_node(word_node) ==
    IF word_node.tag # "word" THEN {[kind |-> "ok", value |-> None]}
    ELSE LET read == read_feature_nodes(
                         word_node.feature_nodes,
                         [base_form |-> "", id |-> "", category |-> "",
                          features |-> <<>>], <<>>)
             inflections == IF read.inflections # <<>> THEN read.inflections
                            ELSE <<"reg">>
             default_inflections ==
                 IF \E i \in DOMAIN inflections : inflections[i] = "reg"
                 THEN {"reg"}
                 ELSE {inflections[i] : i \in DOMAIN inflections}
         IN  IF read.raised # "" THEN {Raise(read.raised)}
             ELSE { [kind |-> "ok",
                     value |-> Some(
                         [base_form |-> read.word.base_form,
                          id |-> read.word.id,
                          category |-> read.word.category,
                          features |-> read.word.features,
                          default_inflection_variant |-> default_inflection,
                          inflection_variants |-> inflections])] :
                    default_inflection \in default_inflections }

\* The feature nodes of the lexicon files, and the word nodes made of them
FeatureNodes ==
    { [tag |-> t, text |-> ""] : t \in {"reg", "irreg", "inv", "proper",
                                         "category"} }
    \cup { [tag |-> "base", text |-> " dog "],
           [tag |-> "category", text |-> "noun"],
           [tag |-> "reg", text |-> "x"],
           [tag |-> "inv", text |-> " "],
           [tag |-> "plural", text |-> "dogs"] }

RECURSIVE NodeLists(_)
NodeLists(n) ==
    IF n = 0 THEN {<<>>}
    ELSE NodeLists(n - 1)
         \cup { Append(l, f) : l \in { m \in NodeLists(n - 1) :
                                         Len(m) = n - 1 },
                               f \in FeatureNodes }

WordNodes ==
    { [tag |-> t, feature_nodes |-> l] :
        t \in {"word", "comment"}, l \in NodeLists(MaxFeatureNodes) }

(***************************************************************************)
(* Loading as a state machine: a node of the lexicon source is converted,  *)
(* and converted again when the same source is loaded a second time.       *)
(***************************************************************************)
WordFromNode ==
    /\ call = NoCall
    /\ \E word_node \in WordNodes :
       \E result \in word_from_node(word_node) :
         /\ call' = [op |-> "word_from_node", word_node |-> word_node]
         /\ ret' = IF result.kind = "ok"
                   THEN [kind |-> "ok", value |-> <<result.value>>]
                   ELSE result
         /\ UNCHANGED <<lexvars, phrasevars>>

WordFromNodeAgain ==
    /\ call.op = "word_from_node"
    /\ ret.kind = "ok"
    /\ Len(ret.value) = 1
    /\ \E result \in word_from_node(call.word_node) :
         /\ result.kind = "ok"
         /\ ret' = [ret EXCEPT !.value = Append(@, result.value)]
         /\ UNCHANGED <<call, lexvars, phrasevars>>

NextLoad == WordFromNode \/ WordFromNodeAgain

SpecLoad == Init /\ [][NextLoad]_vars

\* The inflection codes a word node declares: its feature nodes without
\* text whose tag is a known code
DeclaredCodes(word_node) ==
    { word_node.feature_nodes[i].tag : i \in
        { j \in DOMAIN word_node.feature_nodes :
            /\ word_node.feature_nodes[j].tag \in INFL_CODES
            /\ Strip(word_node.feature_nodes[j].text) = "" } }

\* The Words loaded from the node of the call, in load order
LoadedWords ==
    IF call.op = "word_from_node" /\ ret.kind = "ok"
    THEN SelectSeq(ret.value, LAMBDA w : Truthy(w))
    ELSE <<>>

CodesOf(w) == { The(w).inflection_variants[i] :
                  i \in DOMAIN The(w).inflection_variants }

\* C16: every Word produced by lexicon loading has a non-empty set of
\* inflection patterns (exactly the regular pattern when it declares none),
\* its default pattern is a member of the set, and the default is the
\* regular pattern whenever the set holds it; two loads of the same source
\* give the same default to a word whose set holds the regular pattern.
C16_InflectionPatterns ==
    \A i \in DOMAIN LoadedWords :
        LET w == LoadedWords[i]
        IN  /\ CodesOf(w) # {}
            /\ CodesOf(w) = IF DeclaredCodes(call.word_node) = {}
                            THEN {"reg"}
                            ELSE DeclaredCodes(call.word_node)
            /\ DeclaredCodes(call.word_node) = {}
                 => The(w).inflection_variants = <<"reg">>
            /\ The(w).default_inflection_variant \in CodesOf(w)
            /\ "reg" \in CodesOf(w)
                 => The(w).default_inflection_variant = "reg"
            /\ \A j \in DOMAIN LoadedWords :
                 "reg" \in CodesOf(w)
                 => The(LoadedWords[j]).default_inflection_variant
                        = The(w).default_inflection_variant

\* C16 witness: a word node declaring the irregular pattern before the
\* regular one has been loaded twice, with the regular default both times.
C16_Witness ==
    /\ Len(LoadedWords) = 2
    /\ The(LoadedWords[1]).inflection_variants = <<"irreg", "reg">>
    /\ The(LoadedWords[1]).default_inflection_variant = "reg"
    /\ The(LoadedWords[2]).default_inflection_variant = "reg"

\* The children of the word node of the call that set a feature: those
\* other than base, id and category that have a body, or an empty body and
\* a tag outside the inflection set
FeatureChildren ==
    LET nodes == call.word_node.feature_nodes
    IN  { i \in DOMAIN nodes :
            /\ nodes[i].tag \notin {"base", "id", "category"}
            /\ Strip(nodes[i].text) # "" \/ nodes[i].tag \notin INFL_CODES }

\* The children that declare an inflection pattern, in document order
InflectionChildren ==
    SelectSeq(call.word_node.feature_nodes,
              LAMBDA n : n.tag \in INFL_CODES /\ Strip(n.text) = "")

\* C25: word parsing classifies every child of a word node other than base,
\* id and category.  An empty or blank body with a tag of the inflection
\* set adds the tag to the inflection patterns and sets no feature; an
\* empty body with another tag sets the feature to true; a body with text
\* sets the feature to the trimmed text and adds no inflection pattern,
\* inflection tag or not.  The category is stored upper-cased.
C25_WordParsing ==
    \A k \in DOMAIN LoadedWords :
        LET w == The(LoadedWords[k])
            nodes == call.word_node.feature_nodes
            last(tag) == CHOOSE i \in FeatureChildren :
                            /\ nodes[i].tag = tag
                            /\ \A j \in FeatureChildren :
                                  nodes[j].tag = tag => j <= i
        IN  /\ DOMAIN w.features = { nodes[i].tag : i \in FeatureChildren }
            /\ \A tag \in DOMAIN w.features :
                  w.features[tag] =
                      IF Strip(nodes[last(tag)].text) = ""
                      THEN [py |-> "bool", val |-> TRUE]
                      ELSE PyOfStr(Strip(nodes[last(tag)].text))
            /\ w.inflection_variants =
                  IF InflectionChildren = <<>> THEN <<"reg">>
                  ELSE [i \in DOMAIN InflectionChildren |->
                          InflectionChildren[i].tag]
            /\ \A i \in DOMAIN nodes :
                  (nodes[i].tag = "category"
                   /\ \A j \in DOMAIN nodes :
                         nodes[j].tag = "category" => j <= i)
                  => w.category = upper(Strip(nodes[i].text))

\* C25 witness: a word node with the inflection tag "reg" carrying text, the
\* blank inflection tag "inv" and the category "noun" has been loaded: "reg"
\* is a feature with its text, "inv" the only inflection pattern, and the
\* category is "NOUN".
C25_Witness ==
    /\ Len(LoadedWords) = 1
    /\ The(LoadedWords[1]).features = [reg |-> PyOfStr("x")]
    /\ The(LoadedWords[1]).inflection_variants = <<"inv">>
    /\ The(LoadedWords[1]).category = "NOUN"
    /\ \E i \in DOMAIN call.word_node.feature_nodes :
         call.word_node.feature_nodes[i] = [tag |-> "inv", text |-> " "]

====
